---- MODULE Spec2Model ----
(***************************************************************************)
(* WhatsApp chat analyzer: the parsing layer (whatsapp_analyzer/parser.py). *)
(*                                                                         *)
(* Text is modelled character by character: a Python str is a sequence of  *)
(* one-character strings.  The three header regexes and the strptime        *)
(* formats are run by a small backtracking matcher that follows Python's    *)
(* re semantics (greedy repetition, ordered alternation, anchored at the    *)
(* start, not anchored at the end).                                         *)
(***************************************************************************)
EXTENDS Integers, Sequences, FiniteSets, TLC

VARIABLES
    pc,               \* position of the load_chat call: "idle" or "loop"
    path,             \* load_chat: file_path or self.file_path, "" for None
    content,          \* load_chat: the text read from the file
    lines,            \* _parse_content: content.split('\n')
    idx,              \* _parse_content: index of the next line of the for loop
    messages,         \* _parse_content: the local list of sealed messages
    current_message,  \* _parse_content: <<>> for None, <<m>> for the open dict
    self_messages,    \* ChatParser.messages
    self_df,          \* ChatParser.df: <<>> for None, <<rows>> for a DataFrame
    outcome,          \* how the last load_chat call ended
    returned,         \* what the last load_chat call returned: <<>> or <<rows>>
    input,            \* the structured input of a direct call of a pure function
    phase,            \* position of the direct calls: "start", "matched", "parsed"
    match,            \* result of _match_message: <<>> for None, <<groups>>
    tried,            \* the patterns _match_message has run re.match with, in order
    parsed,           \* result of _parse_datetime: <<>> for ValueError, <<dt>>
    built,            \* the dict built for a matched header: <<>> or <<m>>
    flags,            \* result of the two classifier calls: <<>> or <<flags>>
    chat_analyzer,    \* <<>>, or <<a>>: the ChatAnalyzer built from the table
    group_analyzer,   \* <<>>, or <<g>>: the GroupChatAnalyzer built from the table
    result            \* the last summary or analyzer call: what it returned or raised

vars == <<pc, path, content, lines, idx, messages, current_message, self_messages,
          self_df, outcome, returned, input, phase, match, tried, parsed, built,
          flags, chat_analyzer, group_analyzer, result>>

parserVars == <<pc, path, content, lines, idx, messages, current_message,
                self_messages, self_df, outcome, returned>>

lineVars == <<input, phase, match, tried, parsed, built, flags>>

analysisVars == <<chat_analyzer, group_analyzer, result>>

(***************************************************************************)
(* Characters and character classes                                        *)
(***************************************************************************)

UpperSeq == <<"A","B","C","D","E","F","G","H","I","J","K","L","M",
              "N","O","P","Q","R","S","T","U","V","W","X","Y","Z">>

LowerSeq == <<"a","b","c","d","e","f","g","h","i","j","k","l","m",
              "n","o","p","q","r","s","t","u","v","w","x","y","z">>

DigitSeq == <<"0","1","2","3","4","5","6","7","8","9">>

Digit == {DigitSeq[i] : i \in 1..Len(DigitSeq)}

\* str.isspace() / the regex class \s, restricted to the alphabet
Whitespace == {" ", "\t", "\r", "\n"}

Punctuation == {"/", ",", ":", "-", "[", "]", "!", "<", ">", ".", "?", "'"}

Alphabet ==
    {UpperSeq[i] : i \in 1..Len(UpperSeq)} \cup {LowerSeq[i] : i \in 1..Len(LowerSeq)}
        \cup Digit \cup Whitespace \cup Punctuation

\* the regex '.', which matches anything but a newline
Dot == Alphabet \ {"\n"}

\* the regex [^:]
NotColon == Alphabet \ {":"}

\* str.lower() of one character
LowerChar(c) ==
    IF \E i \in 1..Len(UpperSeq) : UpperSeq[i] = c
    THEN LowerSeq[CHOOSE i \in 1..Len(UpperSeq) : UpperSeq[i] = c]
    ELSE c

\* str.lower()
Lower(s) == [i \in 1..Len(s) |-> LowerChar(s[i])]

\* needle in hay
Contains(hay, needle) ==
    \E k \in 0..(Len(hay) - Len(needle)) :
        \A i \in 1..Len(needle) : hay[k + i] = needle[i]

RECURSIVE LStripFrom(_, _)
LStripFrom(s, i) ==
    IF i > Len(s) THEN Len(s) + 1
    ELSE IF s[i] \in Whitespace THEN LStripFrom(s, i + 1) ELSE i

RECURSIVE RStripFrom(_, _)
RStripFrom(s, j) ==
    IF j < 1 THEN 0
    ELSE IF s[j] \in Whitespace THEN RStripFrom(s, j - 1) ELSE j

\* str.strip()
Strip(s) == SubSeq(s, LStripFrom(s, 1), RStripFrom(s, Len(s)))

\* the positions around the lines of s: 0, each newline, and the end
Breaks(s) == {0, Len(s) + 1} \cup {i \in 1..Len(s) : s[i] = "\n"}

\* the k-th smallest of the positions P
NthOf(P, k) == CHOOSE i \in P : Cardinality({j \in P : j <= i}) = k

\* str.split('\n'): the text between consecutive newlines
SplitLines(s) ==
    [k \in 1..(Cardinality(Breaks(s)) - 1) |->
        SubSeq(s, NthOf(Breaks(s), k) + 1, NthOf(Breaks(s), k + 1) - 1)]

RECURSIVE JoinLines(_)
\* '\n'.join(ls)
JoinLines(ls) ==
    IF Len(ls) = 0 THEN <<>>
    ELSE IF Len(ls) = 1 THEN ls[1]
    ELSE ls[1] \o <<"\n">> \o JoinLines(Tail(ls))

RECURSIVE ToInt(_)
\* int() of a run of digits (int() ignores surrounding blanks)
ToInt(s) ==
    IF Len(s) = 0 THEN 0
    ELSE IF s[Len(s)] \notin Digit THEN ToInt(SubSeq(s, 1, Len(s) - 1))
    ELSE 10 * ToInt(SubSeq(s, 1, Len(s) - 1))
         + ((CHOOSE i \in 1..Len(DigitSeq) : DigitSeq[i] = s[Len(s)]) - 1)

(***************************************************************************)
(* re.match: a pattern is a sequence of items, an item is a greedy         *)
(* repetition of a character class or an ordered alternation of fixed       *)
(* sequences of classes.  The result of a match is <<>> when the pattern    *)
(* does not match at the start of s, and <<ends>> when it does, ends[k]     *)
(* being the offset reached after item k.                                   *)
(***************************************************************************)

Lit(c) == [kind |-> "rep", cls |-> {c}, min |-> 1, max |-> 1, alts |-> <<>>]

Rep(cls, lo, hi) == [kind |-> "rep", cls |-> cls, min |-> lo, max |-> hi, alts |-> <<>>]

Plus(cls) == [kind |-> "plus", cls |-> cls, min |-> 1, max |-> 1, alts |-> <<>>]

Alt(alts) == [kind |-> "alt", cls |-> {}, min |-> 0, max |-> 0, alts |-> alts]

NoMatch == <<>>

RECURSIVE Run(_, _, _, _)
\* how many characters of s after offset pos are in cls, at most cap
Run(s, pos, cls, cap) ==
    IF cap = 0 \/ pos >= Len(s) THEN 0
    ELSE IF s[pos + 1] \notin cls THEN 0
    ELSE 1 + Run(s, pos + 1, cls, cap - 1)

AltFits(s, pos, a) ==
    /\ pos + Len(a) <= Len(s)
    /\ \A i \in 1..Len(a) : s[pos + i] \in a[i]

RECURSIVE MatchItems(_, _, _, _)
RECURSIVE TryRep(_, _, _, _, _)
RECURSIVE TryAlt(_, _, _, _, _)

\* item k ends at position end and r is the match of the items after it
Extend(end, r) == IF r = NoMatch THEN NoMatch ELSE << <<end>> \o r[1] >>

MatchItems(items, k, s, pos) ==
    IF k > Len(items) THEN << <<>> >>
    ELSE IF items[k].kind = "alt" THEN TryAlt(items, k, s, pos, 1)
    ELSE TryRep(items, k, s, pos,
                Run(s, pos, items[k].cls,
                    IF items[k].kind = "plus" THEN Len(s) ELSE items[k].max))

\* r, the match with a run of n, or else the match with a shorter run
RepOrShorter(items, k, s, pos, n, r) ==
    IF r # NoMatch THEN r ELSE TryRep(items, k, s, pos, n - 1)

\* greedy: the longest run first, then shorter ones on backtracking
TryRep(items, k, s, pos, n) ==
    IF n < items[k].min THEN NoMatch
    ELSE RepOrShorter(items, k, s, pos, n,
                      Extend(pos + n, MatchItems(items, k + 1, s, pos + n)))

\* the match with alternative a at pos
WithAlt(items, k, s, pos, a) ==
    IF AltFits(s, pos, a)
    THEN Extend(pos + Len(a), MatchItems(items, k + 1, s, pos + Len(a)))
    ELSE NoMatch

\* r, the match with alternative j, or else the match with a later one
AltOrLater(items, k, s, pos, j, r) ==
    IF r # NoMatch THEN r ELSE TryAlt(items, k, s, pos, j + 1)

\* ordered alternation: the first alternative after which the rest matches
TryAlt(items, k, s, pos, j) ==
    IF j > Len(items[k].alts) THEN NoMatch
    ELSE AltOrLater(items, k, s, pos, j, WithAlt(items, k, s, pos, items[k].alts[j]))

\* re.match(pattern, s): <<>> or <<ends>>
ReMatch(items, s) == MatchItems(items, 1, s, 0)

\* the text matched by items a..b
Span(s, ends, a, b) == SubSeq(s, (IF a = 1 THEN 0 ELSE ends[a - 1]) + 1, ends[b])

(***************************************************************************)
(* The Line Classifier: the three header patterns and _match_message        *)
(***************************************************************************)

D12 == Rep(Digit, 1, 2)

D24 == Rep(Digit, 2, 4)

D2 == Rep(Digit, 2, 2)

S1 == Rep(Whitespace, 1, 1)

SOpt == Rep(Whitespace, 0, 1)

\* \d{1,2}/\d{1,2}/\d{2,4}
DateItems == <<D12, Lit("/"), D12, Lit("/"), D24>>

\* \s?[APap][Mm]
AmPmItems == <<SOpt, Rep({"A", "P", "a", "p"}, 1, 1), Rep({"M", "m"}, 1, 1)>>

\* (.+):\s(.+): an author that may hold colons
TailItems_GreedyAuthor == <<Plus(Dot), Lit(":"), S1, Plus(Dot)>>

\* ([^:]+):?\s(.+): the colon after the author may be missing
TailItems_OptionalColon == <<Plus(NotColon), Rep({":"}, 0, 1), S1, Plus(Dot)>>

\* ([^:]+):\s(.+)
TailItems == <<Plus(NotColon), Lit(":"), S1, Plus(Dot)>>

\* a pattern with its three groups: items ts[1]..ts[2], item author, item message
Pattern(name, before, tsItems, after) ==
    [name    |-> name,
     items   |-> before \o tsItems \o after \o TailItems,
     ts      |-> <<Len(before) + 1, Len(before) + Len(tsItems)>>,
     author  |-> Len(before) + Len(tsItems) + Len(after) + 1,
     message |-> Len(before) + Len(tsItems) + Len(after) + 4]

\* (\d{1,2}/\d{1,2}/\d{2,4},\s\d{1,2}:\d{2}\s?[APap][Mm])\s-\s([^:]+):\s(.+)
ANDROID_PATTERN ==
    Pattern("ANDROID", <<>>,
            DateItems \o <<Lit(","), S1, D12, Lit(":"), D2>> \o AmPmItems,
            <<S1, Lit("-"), S1>>)

\* \[(\d{1,2}/\d{1,2}/\d{2,4},\s\d{1,2}:\d{2}:\d{2}\s?[APap][Mm])\]\s([^:]+):\s(.+)
IOS_PATTERN ==
    Pattern("IOS", <<Lit("[")>>,
            DateItems \o <<Lit(","), S1, D12, Lit(":"), D2, Lit(":"), D2>> \o AmPmItems,
            <<Lit("]"), S1>>)

\* (\d{1,2}/\d{1,2}/\d{2,4},\s\d{1,2}:\d{2})\s-\s([^:]+):\s(.+)
ALTERNATIVE_PATTERN ==
    Pattern("ALTERNATIVE", <<>>,
            DateItems \o <<Lit(","), S1, D12, Lit(":"), D2>>,
            <<S1, Lit("-"), S1>>)

\* the list with the bracketed pattern first
patterns_BracketedFirst == <<IOS_PATTERN, ANDROID_PATTERN, ALTERNATIVE_PATTERN>>

\* the list _match_message walks
patterns == <<ANDROID_PATTERN, IOS_PATTERN, ALTERNATIVE_PATTERN>>

\* re.match(pattern, line) is not None
Matches(p, line) == ReMatch(p.items, line) # NoMatch

\* match.groups()
GroupsAt(p, line, ends) ==
    <<Span(line, ends, p.ts[1], p.ts[2]),
      Span(line, ends, p.author, p.author),
      Span(line, ends, p.message, p.message)>>

Groups(p, line) == GroupsAt(p, line, ReMatch(p.items, line)[1])

\* what _match_message returns when pattern k is the first to match
GroupsOfPattern(line, k) == IF k = 0 THEN <<>> ELSE <<Groups(patterns[k], line)>>

RECURSIVE FirstMatch(_, _)
\* the index of the first pattern, from k on, that matches; 0 when none does
FirstMatch(line, k) ==
    IF k > Len(patterns) THEN 0
    ELSE IF Matches(patterns[k], line) THEN k
    ELSE FirstMatch(line, k + 1)

\* _match_message handed the trimmed line: blanks before a header are skipped
match_message_Stripped(line) == GroupsOfPattern(Strip(line), FirstMatch(Strip(line), 1))

\* _match_message: <<>> for None, else <<(timestamp, author, message)>>
match_message(line) == GroupsOfPattern(line, FirstMatch(line, 1))

\* the names of the patterns up to the k-th, of all of them when k = 0
NamesUpTo(k) == [i \in 1..(IF k = 0 THEN Len(patterns) ELSE k) |-> patterns[i].name]

\* the patterns the loop of _match_message hands to re.match, in order
PatternsTried(line) == NamesUpTo(FirstMatch(line, 1))

(***************************************************************************)
(* The Timestamp Normalizer: datetime.strptime and _parse_datetime          *)
(***************************************************************************)

D19 == Digit \ {"0"}

D05 == {"0", "1", "2", "3", "4", "5"}

\* the regex CPython's _strptime compiles for one token of a format; the
\* whole regex is compiled with IGNORECASE and blanks of the format are \s+
TokenItem(tok) ==
    CASE tok = "%d" -> Alt(<< <<{"3"}, {"0", "1"}>>, <<{"1", "2"}, Digit>>,
                              <<{"0"}, D19>>, <<D19>>, <<{" "}, D19>> >>)
      [] tok = "%m" -> Alt(<< <<{"1"}, {"0", "1", "2"}>>, <<{"0"}, D19>>, <<D19>> >>)
      [] tok = "%Y" -> Alt(<< <<Digit, Digit, Digit, Digit>> >>)
      [] tok = "%y" -> Alt(<< <<Digit, Digit>> >>)
      [] tok = "%I" -> Alt(<< <<{"1"}, {"0", "1", "2"}>>, <<{"0"}, D19>>, <<D19>> >>)
      [] tok = "%H" -> Alt(<< <<{"2"}, {"0", "1", "2", "3"}>>, <<{"0", "1"}, Digit>>,
                              <<Digit>> >>)
      [] tok = "%M" -> Alt(<< <<D05, Digit>>, <<Digit>> >>)
      [] tok = "%S" -> Alt(<< <<{"6"}, {"0", "1"}>>, <<D05, Digit>>, <<Digit>> >>)
      [] tok = "%p" -> Alt(<< <<{"a", "A"}, {"m", "M"}>>, <<{"p", "P"}, {"m", "M"}>> >>)
      [] tok = " "  -> Plus(Whitespace)
      [] OTHER      -> Lit(tok)

FormatRegex(fmt) == [i \in 1..Len(fmt) |-> TokenItem(fmt[i])]

HasToken(fmt, tok) == \E i \in 1..Len(fmt) : fmt[i] = tok

\* found_dict[tok]
Found(fmt, s, ends, tok) ==
    LET i == CHOOSE j \in 1..Len(fmt) : fmt[j] = tok
    IN  Span(s, ends, i, i)

IsLeap(y) == (y % 4 = 0) /\ ((y % 100 # 0) \/ (y % 400 = 0))

DaysInMonth(y, m) ==
    IF m = 2 THEN (IF IsLeap(y) THEN 29 ELSE 28)
    ELSE IF m \in {4, 6, 9, 11} THEN 30 ELSE 31

\* the year of a %Y or %y field
Pivot(y) == IF y <= 68 THEN y + 2000 ELSE y + 1900

YearOf(fmt, s, ends) ==
    IF HasToken(fmt, "%Y") THEN ToInt(Found(fmt, s, ends, "%Y"))
    ELSE Pivot(ToInt(Found(fmt, s, ends, "%y")))

\* the hour of a %H field, or of a %I field with its %p
To24(h, pm) ==
    IF pm THEN (IF h # 12 THEN h + 12 ELSE h)
    ELSE (IF h = 12 THEN 0 ELSE h)

HourOf(fmt, s, ends) ==
    IF HasToken(fmt, "%H") THEN ToInt(Found(fmt, s, ends, "%H"))
    ELSE To24(ToInt(Found(fmt, s, ends, "%I")),
              HasToken(fmt, "%p") /\ Lower(Found(fmt, s, ends, "%p")) = <<"p", "m">>)

\* the fields of found_dict as integers
Fields(fmt, s, ends) ==
    [year   |-> YearOf(fmt, s, ends),
     month  |-> ToInt(Found(fmt, s, ends, "%m")),
     day    |-> ToInt(Found(fmt, s, ends, "%d")),
     hour   |-> HourOf(fmt, s, ends),
     minute |-> ToInt(Found(fmt, s, ends, "%M")),
     second |-> IF HasToken(fmt, "%S") THEN ToInt(Found(fmt, s, ends, "%S")) ELSE 0]

\* the datetime constructor's range checks
Checked(dt) ==
    IF /\ dt.year >= 1
       /\ dt.day <= DaysInMonth(dt.year, dt.month)
       /\ dt.second <= 59
    THEN <<dt>> ELSE <<>>

\* r is the match of the format's regex on s
Converted(s, fmt, r) ==
    IF r = NoMatch THEN <<>>
    ELSE IF r[1][Len(fmt)] # Len(s) THEN <<>>   \* unconverted data remains
    ELSE Checked(Fields(fmt, s, r[1]))

\* datetime.strptime(s, fmt): <<>> for ValueError, else <<datetime>>
strptime(s, fmt) == Converted(s, fmt, ReMatch(FormatRegex(fmt), s))

\* the list without its month-first formats
formats_DayFirstOnly == <<
    <<"%d", "/", "%m", "/", "%Y", ",", " ", "%I", ":", "%M", " ", "%p">>,
    <<"%d", "/", "%m", "/", "%y", ",", " ", "%I", ":", "%M", " ", "%p">>,
    <<"%d", "/", "%m", "/", "%Y", ",", " ", "%H", ":", "%M">>,
    <<"%d", "/", "%m", "/", "%y", ",", " ", "%H", ":", "%M">>,
    <<"%d", "/", "%m", "/", "%Y", ",", " ", "%I", ":", "%M", ":", "%S", " ", "%p">>,
    <<"%d", "/", "%m", "/", "%y", ",", " ", "%I", ":", "%M", ":", "%S", " ", "%p">>
    >>

\* the list _parse_datetime walks
formats == <<
    <<"%d", "/", "%m", "/", "%Y", ",", " ", "%I", ":", "%M", " ", "%p">>,
    <<"%d", "/", "%m", "/", "%y", ",", " ", "%I", ":", "%M", " ", "%p">>,
    <<"%m", "/", "%d", "/", "%Y", ",", " ", "%I", ":", "%M", " ", "%p">>,
    <<"%m", "/", "%d", "/", "%y", ",", " ", "%I", ":", "%M", " ", "%p">>,
    <<"%d", "/", "%m", "/", "%Y", ",", " ", "%H", ":", "%M">>,
    <<"%d", "/", "%m", "/", "%y", ",", " ", "%H", ":", "%M">>,
    <<"%m", "/", "%d", "/", "%Y", ",", " ", "%H", ":", "%M">>,
    <<"%m", "/", "%d", "/", "%y", ",", " ", "%H", ":", "%M">>,
    <<"%d", "/", "%m", "/", "%Y", ",", " ", "%I", ":", "%M", ":", "%S", " ", "%p">>,
    <<"%d", "/", "%m", "/", "%y", ",", " ", "%I", ":", "%M", ":", "%S", " ", "%p">>
    >>

RECURSIVE FirstFormat(_, _)
\* the index of the first format, from k on, that parses s; 0 when none does
FirstFormat(s, k) ==
    IF k > Len(formats) THEN 0
    ELSE IF strptime(s, formats[k]) # <<>> THEN k
    ELSE FirstFormat(s, k + 1)

\* what the first format, from k on, that parses s makes of it; <<>> when k = 0
WithFormat(s, k) == IF k = 0 THEN <<>> ELSE strptime(s, formats[k])

\* the result of the loop over the formats on the stripped timestamp
Parsed(s) == WithFormat(s, FirstFormat(s, 1))

\* _parse_datetime falling back to datetime.min instead of raising
parse_datetime_Lenient(timestamp) ==
    LET d == Parsed(Strip(timestamp))
    IN  IF d = <<>>
        THEN <<[year |-> 1, month |-> 1, day |-> 1, hour |-> 0, minute |-> 0, second |-> 0]>>
        ELSE d

\* _parse_datetime: <<>> for the ValueError it raises, else <<datetime>>
parse_datetime(timestamp) == Parsed(Strip(timestamp))

\* datetime < datetime
DtLess(a, b) ==
    LET ka == <<a.year, a.month, a.day, a.hour, a.minute, a.second>>
        kb == <<b.year, b.month, b.day, b.hour, b.minute, b.second>>
    IN  \E i \in 1..6 : ka[i] < kb[i] /\ \A j \in 1..(i - 1) : ka[j] = kb[j]

DtLeq(a, b) == ~DtLess(b, a)

(***************************************************************************)
(* The Message Classifier                                                   *)
(***************************************************************************)

media_indicators == <<
    \* <Media omitted>
    <<"<","M","e","d","i","a"," ","o","m","i","t","t","e","d",">">>,
    \* image omitted
    <<"i","m","a","g","e"," ","o","m","i","t","t","e","d">>,
    \* video omitted
    <<"v","i","d","e","o"," ","o","m","i","t","t","e","d">>,
    \* audio omitted
    <<"a","u","d","i","o"," ","o","m","i","t","t","e","d">>,
    \* document omitted
    <<"d","o","c","u","m","e","n","t"," ","o","m","i","t","t","e","d">>,
    \* sticker omitted
    <<"s","t","i","c","k","e","r"," ","o","m","i","t","t","e","d">>,
    \* GIF omitted
    <<"G","I","F"," ","o","m","i","t","t","e","d">>,
    \* .jpg
    <<".","j","p","g">>,
    \* .png
    <<".","p","n","g">>,
    \* .mp4
    <<".","m","p","4">>,
    \* .pdf
    <<".","p","d","f">>
    >>

system_indicators == <<
    \* changed the subject
    <<"c","h","a","n","g","e","d"," ","t","h","e"," ","s","u","b","j","e","c","t">>,
    \* changed this group
    <<"c","h","a","n","g","e","d"," ","t","h","i","s"," ","g","r","o","u","p">>,
    \* created group
    <<"c","r","e","a","t","e","d"," ","g","r","o","u","p">>,
    \* added
    <<"a","d","d","e","d">>,
    \* removed
    <<"r","e","m","o","v","e","d">>,
    \* left
    <<"l","e","f","t">>,
    \* joined using this group
    <<"j","o","i","n","e","d"," ","u","s","i","n","g"," ","t","h","i","s"," ","g","r","o","u","p">>,
    \* security code changed
    <<"s","e","c","u","r","i","t","y"," ","c","o","d","e"," ","c","h","a","n","g","e","d">>,
    \* Messages and calls are end-to-end encrypted
    <<"M","e","s","s","a","g","e","s"," ","a","n","d"," ","c","a","l","l","s"," ","a","r","e"," ","e","n","d","-","t","o","-","e","n","d"," ","e","n","c","r","y","p","t","e","d">>,
    \* You deleted this message
    <<"Y","o","u"," ","d","e","l","e","t","e","d"," ","t","h","i","s"," ","m","e","s","s","a","g","e">>,
    \* This message was deleted
    <<"T","h","i","s"," ","m","e","s","s","a","g","e"," ","w","a","s"," ","d","e","l","e","t","e","d">>
    >>

\* any(indicator.lower() in message.lower() for indicator in indicators)
AnyIndicator(indicators, message) ==
    \E i \in 1..Len(indicators) : Contains(Lower(message), Lower(indicators[i]))

\* _is_media_message comparing without .lower()
is_media_message_CaseSensitive(message) ==
    \E i \in 1..Len(media_indicators) : Contains(message, media_indicators[i])

\* _is_media_message
is_media_message(message) == AnyIndicator(media_indicators, message)

\* _is_system_message deciding by the author name alone
is_system_message_ByAuthor(author, message) == author = <<"S","y","s","t","e","m">>

\* _is_system_message: the author is not looked at
is_system_message(author, message) == AnyIndicator(system_indicators, message)

(***************************************************************************)
(* The Message Assembler (_parse_content) and load_chat                     *)
(***************************************************************************)

\* lines 78-85: the dict opened for a matched header; the caller has checked
\* that _parse_datetime does not raise
NewMessage(groups) ==
    [datetime  |-> parse_datetime(groups[1])[1],
     author    |-> Strip(groups[2]),
     message   |-> Strip(groups[3]),
     is_media  |-> is_media_message(groups[3]),
     is_system |-> is_system_message(groups[2], groups[3])]

\* line 89 without the strip
AppendLine_NoStrip(m, line) == [m EXCEPT !.message = @ \o <<"\n">> \o line]

\* line 89: current_message['message'] += '\n' + line.strip()
AppendLine(m, line) == [m EXCEPT !.message = @ \o <<"\n">> \o Strip(line)]

\* lines 86-89 without the test of current_message: a stray line opens a message
Continue_OpensMessage(cur, line) ==
    IF cur # <<>> THEN <<AppendLine(cur[1], line)>>
    ELSE <<[datetime  |-> [year |-> 1, month |-> 1, day |-> 1,
                           hour |-> 0, minute |-> 0, second |-> 0],
            author    |-> <<>>,
            message   |-> Strip(line),
            is_media  |-> FALSE,
            is_system |-> FALSE]>>

\* lines 86-89 doing nothing: a line that is no header is dropped
Continue_Dropped(cur, line) == cur

\* lines 86-89: elif current_message: the line is appended to the open message
Continue(cur, line) == IF cur # <<>> THEN <<AppendLine(cur[1], line)>> ELSE cur

\* the open message written over the last sealed one instead of appended
Seal_Overwrite(msgs, cur) ==
    IF cur = <<>> THEN msgs
    ELSE IF msgs = <<>> THEN <<cur[1]>>
    ELSE [msgs EXCEPT ![Len(msgs)] = cur[1]]

\* line 67 testing the raw line: only the empty line is skipped
Skips_OnlyEmpty(line) == line = <<>>

\* line 67: not line.strip()
Skips(line) == Strip(line) = <<>>

\* lines 75-76 and 92-93: if current_message: messages.append(current_message)
Seal(msgs, cur) == IF cur # <<>> THEN Append(msgs, cur[1]) ELSE msgs

\* rows in non-decreasing datetime order
IsSorted(rows) ==
    \A i \in 1..(Len(rows) - 1) : DtLeq(rows[i].datetime, rows[i + 1].datetime)

\* line 49 left out: the rows stay in file order
sort_values_Skipped(rows) == {rows}

\* line 49: df.sort_values('datetime').reset_index(drop=True).  The default
\* kind is quicksort, which is not stable: every sorted arrangement of the
\* rows is a possible result.
sort_values(rows) ==
    {r \in {[i \in 1..Len(rows) |-> rows[p[i]]] : p \in Permutations(1..Len(rows))} :
        IsSorted(r)}

\* lines 45-49: the tables load_chat may build from the parsed messages
DataFrame(msgs) == IF msgs = <<>> THEN {msgs} ELSE sort_values(msgs)

\* the sample lines the files are made of
\* 2/1/23, 9:05 AM - A: hi
HdrAndroid ==
    <<"2","/","1","/","2","3",","," ","9",":","0","5"," ","A","M"," ","-"," ","A",":"," ","h","i">>

\* 1/1/23, 9:05 - A: yo
HdrAlternative ==
    <<"1","/","1","/","2","3",","," ","9",":","0","5"," ","-"," ","A",":"," ","y","o">>

\* [3/1/23, 9:05:07 PM] B: ok
HdrIos ==
    <<"[","3","/","1","/","2","3",","," ","9",":","0","5",":","0","7"," ","P","M","]"," ","B",":"," ","o","k">>

\* 99/99/9999, 99:99 - A: x
HdrBadStamp ==
    <<"9","9","/","9","9","/","9","9","9","9",","," ","9","9",":","9","9"," ","-"," ","A",":"," ","x">>

\* a header whose text after the delimiter is one blank: 2/1/23, 9:06 AM - B:
HdrBlankBody ==
    <<"2","/","1","/","2","3",","," ","9",":","0","6"," ","A","M"," ","-"," ","B",":"," "," ">>

\* a continuation line with blanks around it
ContLine ==
    <<" ","m","o","r","e"," ">>

\* a line of one blank
BlankLine ==
    <<" ">>

\* a header whose body holds a system and a media indicator:
\* 4/1/23, 9:07 AM - B: left.png
HdrFlagged ==
    <<"4","/","1","/","2","3",","," ","9",":","0","7"," ","A","M"," ","-"," ","B",":"," ","l","e","f","t",".","p","n","g">>

\* a continuation line that holds a system and a media indicator
ContFlagged ==
    <<"l","e","f","t",".","p","n","g">>

LineSet == {HdrAndroid, HdrAlternative, HdrIos, HdrBadStamp, HdrBlankBody,
            HdrFlagged, ContLine, ContFlagged, BlankLine}

\* the longest file, in lines
MaxLines == 3

RECURSIVE SeqsUpTo(_, _)
\* the sequences over S of length at most n
SeqsUpTo(S, n) ==
    IF n = 0 THEN {<<>>}
    ELSE LET shorter == SeqsUpTo(S, n - 1)
         IN  shorter \cup {Append(q, x) : q \in {r \in shorter : Len(r) = n - 1}, x \in S}

\* a header with a blank before it:  2/1/23, 9:05 AM - A: hi
HdrAfterBlank == <<" ">> \o HdrAndroid

\* a header with a letter before it: x2/1/23, 9:05 AM - A: hi
HdrAfterLetter == <<"x">> \o HdrAndroid

\* a header with a digit before it: 12/1/23, 9:05 AM - A: hi
HdrAfterDigit == <<"1">> \o HdrAndroid

\* the export's own notice, without author: 12/25/2023, 10:30 AM - Alice added Bob
NoticeLine ==
    <<"1","2","/","2","5","/","2","0","2","3",","," ","1","0",":","3","0"," ","A","M"," ","-"," ",
      "A","l","i","c","e"," ","a","d","d","e","d"," ","B","o","b">>

\* month-first headers of the 5th and the 13th of January:
\* 1/5/23, 9:00 AM - A: a   and   1/13/23, 9:00 AM - A: b
HdrJan5 ==
    <<"1","/","5","/","2","3",","," ","9",":","0","0"," ","A","M"," ","-"," ","A",":"," ","a">>

HdrJan13 ==
    <<"1","/","1","3","/","2","3",","," ","9",":","0","0"," ","A","M"," ","-"," ","A",":"," ","b">>

\* lines that stand in a few files only
ExtraLines == {HdrAfterBlank, HdrAfterLetter, HdrAfterDigit, NoticeLine, HdrJan5, HdrJan13}

\* the files with such a line: alone, after a header, and the export of
\* the two January headers
ExtraFiles ==
    {<<l>> : l \in ExtraLines} \cup {<<HdrAlternative, l>> : l \in ExtraLines}
        \cup {<<HdrJan5, HdrJan13>>}

\* the file contents: up to MaxLines sample lines joined by newlines, and
\* the extra files
Contents ==
    {JoinLines(ls) : ls \in SeqsUpTo(LineSet, MaxLines)} \cup {JoinLines(ls) : ls \in ExtraFiles}

\* lines 78-85 when the timestamp parsed to d, <<>> when it raised (d = <<>>)
Opened(m, d) ==
    [match |-> m,
     dt    |-> d,
     msg   |-> IF d # <<>> THEN <<NewMessage(m[1])>> ELSE <<>>]

\* lines 73-85 on the result m of _match_message
Matched(m) ==
    IF m = <<>> THEN [match |-> m, dt |-> <<>>, msg |-> <<>>]
    ELSE Opened(m, parse_datetime(m[1][1]))

\* what the body of the for loop computes from one line: the match (line 71),
\* the parsed timestamp (line 80) and the dict opened for it (lines 79-85)
LineResult(l) == Matched(match_message(l))

\* the results for the sample lines, computed once
LineTable == [l \in LineSet \cup ExtraLines |-> LineResult(l)]

OnLine(l) == IF l \in DOMAIN LineTable THEN LineTable[l] ELSE LineResult(l)

NoInput == [kind |-> "none"]

ParserInit ==
    /\ pc = "idle"
    /\ path = ""
    /\ content = <<>>
    /\ lines = <<>>
    /\ idx = 1
    /\ messages = <<>>
    /\ current_message = <<>>
    /\ self_messages = <<>>
    /\ self_df = <<>>
    /\ outcome = "none"
    /\ returned = <<>>

LineIdle ==
    /\ input = NoInput
    /\ phase = "off"
    /\ match = <<>>
    /\ tried = <<>>
    /\ parsed = <<>>
    /\ built = <<>>
    /\ flags = <<>>

\* no call made yet
NoCall == [op |-> "none", raised |-> "", value |-> <<>>]

\* no summary asked for, no analyzer built
AnalysisIdle ==
    /\ chat_analyzer = <<>>
    /\ group_analyzer = <<>>
    /\ result = NoCall

\* the state after ChatParser(file_path)
Init == ParserInit /\ LineIdle /\ AnalysisIdle

\* the paths load_chat is called with; "" stands for no path at all
Paths == {"", "chat.txt", "missing.txt"}

\* the files on disk
Files == {"chat.txt"}

\* a check that finds every file
exists_Always(p) == TRUE

\* line 37: file_path_obj.exists()
exists(p) == p \in Files

\* load_chat, lines 33-35: neither the argument nor self.file_path names a file
LoadChatNoPath ==
    /\ pc = "idle"
    /\ outcome = "none"
    /\ path' = ""
    /\ outcome' = "ValueError"
    /\ returned' = <<>>
    /\ UNCHANGED <<pc, content, lines, idx, messages, current_message,
                   self_messages, self_df>>
    /\ UNCHANGED lineVars
    /\ UNCHANGED analysisVars

\* load_chat, lines 36-38: the path does not exist
LoadChatMissing ==
    /\ pc = "idle"
    /\ outcome = "none"
    /\ \E p \in Paths \ {""} :
        /\ ~exists(p)
        /\ path' = p
    /\ outcome' = "FileNotFoundError"
    /\ returned' = <<>>
    /\ UNCHANGED <<pc, content, lines, idx, messages, current_message,
                   self_messages, self_df>>
    /\ UNCHANGED lineVars
    /\ UNCHANGED analysisVars

\* load_chat, lines 33-44: the file exists, its text is read and split
LoadChat ==
    /\ pc = "idle"
    /\ outcome = "none"
    /\ \E p \in Paths \ {""} :
        /\ exists(p)
        /\ path' = p
    /\ \E c \in Contents :
        /\ content' = c
        /\ lines' = SplitLines(c)
    /\ pc' = "loop"
    /\ idx' = 1
    /\ messages' = <<>>
    /\ current_message' = <<>>
    /\ UNCHANGED <<self_messages, self_df, outcome, returned>>
    /\ UNCHANGED lineVars
    /\ UNCHANGED analysisVars

InLoop == pc = "loop" /\ idx <= Len(lines)

\* an assignment that adds the parsed list to the list the parser holds
Stored_Extended(held, msgs) == held \o msgs

\* line 44: self.messages = ..., the parsed list takes the place of the held one
Stored(held, msgs) == msgs

\* an exit that leaves the messages parsed so far in the parser
AfterRaise_Partial(held, partial) == partial

\* line 44 when _parse_content raises: the assignment never happens
AfterRaise(held, partial) == held

\* lines 67-68: a blank line is skipped
SkipBlank ==
    /\ InLoop
    /\ Skips(lines[idx])
    /\ idx' = idx + 1
    /\ UNCHANGED <<pc, path, content, lines, messages, current_message,
                   self_messages, self_df, outcome, returned>>
    /\ UNCHANGED lineVars
    /\ UNCHANGED analysisVars

\* lines 73-85: a header seals the open message and opens a new one
HeaderLine ==
    /\ InLoop
    /\ ~Skips(lines[idx])
    /\ LET r == OnLine(lines[idx])
       IN  /\ r.match # <<>>
           /\ r.dt # <<>>
           /\ messages' = Seal(messages, current_message)
           /\ current_message' = r.msg
    /\ idx' = idx + 1
    /\ UNCHANGED <<pc, path, content, lines, self_messages, self_df, outcome, returned>>
    /\ UNCHANGED lineVars
    /\ UNCHANGED analysisVars

\* line 80 raising: _parse_datetime's ValueError leaves _parse_content and
\* load_chat; nothing is assigned and nothing is returned
HeaderRaises ==
    /\ InLoop
    /\ ~Skips(lines[idx])
    /\ LET r == OnLine(lines[idx])
       IN  /\ r.match # <<>>
           /\ r.dt = <<>>
    /\ pc' = "idle"
    /\ outcome' = "ValueError"
    /\ returned' = <<>>
    /\ self_messages' = AfterRaise(self_messages, messages)
    /\ UNCHANGED <<path, content, lines, idx, messages, current_message, self_df>>
    /\ UNCHANGED lineVars
    /\ UNCHANGED analysisVars

\* lines 86-89: any other line continues the open message, if there is one
ContinuationLine ==
    /\ InLoop
    /\ ~Skips(lines[idx])
    /\ OnLine(lines[idx]).match = <<>>
    /\ current_message' = Continue(current_message, lines[idx])
    /\ idx' = idx + 1
    /\ UNCHANGED <<pc, path, content, lines, messages, self_messages, self_df,
                   outcome, returned>>
    /\ UNCHANGED lineVars
    /\ UNCHANGED analysisVars

\* lines 91-95 and 44-51: the last message is sealed, the list is stored,
\* the table is built, sorted, stored and returned
FinishLoad ==
    /\ pc = "loop"
    /\ idx > Len(lines)
    /\ LET msgs == Seal(messages, current_message)
       IN  /\ messages' = msgs
           /\ self_messages' = Stored(self_messages, msgs)
           /\ \E df \in DataFrame(Stored(self_messages, msgs)) :
                /\ self_df' = <<df>>
                /\ returned' = <<df>>
    /\ pc' = "idle"
    /\ outcome' = "returned"
    /\ UNCHANGED <<path, content, lines, idx, current_message>>
    /\ UNCHANGED lineVars
    /\ UNCHANGED analysisVars

Next ==
    \/ LoadChatNoPath
    \/ LoadChatMissing
    \/ LoadChat
    \/ SkipBlank
    \/ HeaderLine
    \/ HeaderRaises
    \/ ContinuationLine
    \/ FinishLoad

Spec == Init /\ [][Next]_vars

(***************************************************************************)
(* Properties of the assembler and of load_chat, stated on the input text   *)
(***************************************************************************)

\* the lines of the file the last call read
InputLines == SplitLines(content)

\* the groups _match_message captures from the line, <<>> when it is no header
GroupsOf(l) == OnLine(l).match

IsHeader(l) == GroupsOf(l) # <<>>

IsBlank(l) == Strip(l) = <<>>

\* some format of the list parses the timestamp
ParsableStamp(ts) == \E k \in 1..Len(formats) : strptime(Strip(ts), formats[k]) # <<>>

\* the sample lines that are headers with a timestamp no format parses
BadStampLines == {l \in LineSet : match_message(l) # <<>> /\ ~ParsableStamp(match_message(l)[1][1])}

\* a sample line that is a header with a timestamp no format parses
BadStamp(l) ==
    IF l \in LineSet THEN l \in BadStampLines
    ELSE match_message(l) # <<>> /\ ~ParsableStamp(match_message(l)[1][1])

\* the positions of the header lines among the lines ls
HeaderIdx(ls) == {i \in 1..Len(ls) : IsHeader(ls[i])}

\* the position of the k-th header line, hdr being the header positions
NthHeader(hdr, k) == CHOOSE i \in hdr : Cardinality({j \in hdr : j <= i}) = k

\* the last line before the header that follows line i, or the last line
BlockLast(ls, hdr, i) ==
    CHOOSE j \in i..Len(ls) :
        /\ \A n \in (i + 1)..j : n \notin hdr
        /\ j = Len(ls) \/ (j + 1) \in hdr

\* the captured body of header line i, trimmed, newline-joined with the
\* trimmed lines that follow it up to the next header
ExpectedBody(ls, hdr, i) ==
    JoinLines(<<Strip(GroupsOf(ls[i])[1][3])>>
              \o [j \in 1..(BlockLast(ls, hdr, i) - i) |-> Strip(ls[i + j])])

\* N header lines with parsable timestamps, each followed by non-blank
\* continuation lines
WellFormed(ls, hdr) ==
    /\ 1 \in hdr
    /\ \A i \in 1..Len(ls) : ~IsBlank(ls[i]) /\ ~BadStamp(ls[i])

\* the last call's input is of that form
WellFormedInput == WellFormed(InputLines, HeaderIdx(InputLines))

\* C1: for an input of N header lines with parsable timestamps, each
\* followed by K >= 0 non-blank continuation lines, _parse_content produces
\* exactly N messages in header order, each body being the trimmed captured
\* body newline-joined with the trimmed continuation lines; consecutive
\* headers of one author stay separate messages.
C1_RoundTrip ==
    outcome = "returned" =>
        LET ls  == InputLines
            hdr == HeaderIdx(ls)
        IN  WellFormed(ls, hdr) =>
                /\ Len(self_messages) = Cardinality(hdr)
                /\ \A k \in 1..Len(self_messages) :
                    LET i == NthHeader(hdr, k)
                    IN  /\ self_messages[k].message = ExpectedBody(ls, hdr, i)
                        /\ self_messages[k].author = Strip(GroupsOf(ls[i])[1][2])

\* two consecutive headers of one author, the second with a continuation line
C1_Witness ==
    /\ outcome = "returned"
    /\ WellFormedInput
    /\ HeaderIdx(InputLines) = {1, 2}
    /\ Len(InputLines) = 3
    /\ Len(self_messages) = 2
    /\ self_messages[1].author = self_messages[2].author
    /\ Contains(self_messages[2].message, <<"\n">>)

\* C2: whenever load_chat succeeds, the table it returns is sorted
\* non-decreasing by timestamp, whatever the order of the header lines.
C2_Sorted ==
    outcome = "returned" =>
        \A i, j \in 1..Len(returned[1]) :
            i < j => ~DtLess(returned[1][j].datetime, returned[1][i].datetime)

\* a successful load of a file whose headers are not in time order
C2_Witness ==
    /\ outcome = "returned"
    /\ Len(self_messages) >= 2
    /\ \E i \in 1..(Len(self_messages) - 1) :
        DtLess(self_messages[i + 1].datetime, self_messages[i].datetime)

\* line i of the last call's input is a header no format parses
BadHeaderAt(i) == i \in 1..Len(InputLines) /\ BadStamp(InputLines[i])

\* C3: if any line accepted as a header carries a timestamp no known format
\* parses, load fails with the timestamp error (the code's ValueError),
\* wherever the line is, and returns no table, not even of the messages
\* sealed before that line.
C3_FailFast ==
    (pc = "idle" /\ outcome # "none") =>
        LET ls == InputLines
        IN  (\E i \in 1..Len(ls) : BadStamp(ls[i])) =>
                /\ outcome = "ValueError"
                /\ returned = <<>>

\* the bad header is the third line, after a message has been sealed
C3_Witness ==
    /\ outcome = "ValueError"
    /\ BadHeaderAt(3)
    /\ Len(messages) >= 1
    /\ current_message # <<>>

\* C4: every message the assembler produces has a body with at least one
\* non-whitespace character.
C4_NeverEmpty ==
    outcome = "returned" =>
        \A k \in 1..Len(self_messages) : Strip(self_messages[k].message) # <<>>

\* C11: for every message of the table, (is_media, is_system) is what the
\* classifier gives on the message's final body, continuation lines included.
C11_FlagsOfSealedBody ==
    outcome = "returned" =>
        \A k \in 1..Len(returned[1]) :
            LET row == returned[1][k]
            IN  /\ row.is_media = is_media_message(row.message)
                /\ row.is_system = is_system_message(row.author, row.message)

\* C14: load_chat on an existing file without any header line (empty, only
\* blank lines, only non-matching lines) returns an empty table, no error.
C14_EmptyInput ==
    (pc = "idle" /\ outcome # "none" /\ path \in Files) =>
        (HeaderIdx(InputLines) = {} =>
            /\ outcome = "returned"
            /\ returned = << <<>> >>
            /\ self_messages = <<>>)

\* a file of non-matching lines only, loaded
C14_Witness ==
    /\ outcome = "returned"
    /\ path \in Files
    /\ Len(InputLines) >= 2
    /\ \A i \in 1..Len(InputLines) : ~IsHeader(InputLines[i]) /\ ~IsBlank(InputLines[i])
    /\ returned = << <<>> >>

\* an empty file, loaded
C14_WitnessEmptyFile ==
    /\ outcome = "returned"
    /\ path \in Files
    /\ content = <<>>
    /\ returned = << <<>> >>

\* C16: load_chat on a path that does not exist fails with FileNotFoundError
\* and has read and parsed nothing.
C16_MissingFile ==
    (outcome # "none" /\ path # "" /\ path \notin Files) =>
        /\ outcome = "FileNotFoundError"
        /\ pc = "idle"
        /\ content = <<>> /\ lines = <<>>
        /\ messages = <<>> /\ current_message = <<>>
        /\ self_messages = <<>> /\ self_df = <<>>
        /\ returned = <<>>

\* the call on the missing path has ended
C16_Witness ==
    /\ outcome = "FileNotFoundError"
    /\ path = "missing.txt"

(***************************************************************************)
(* Direct calls of _match_message and _parse_datetime on generated lines    *)
(***************************************************************************)

RECURSIVE Digits(_)
\* str(n) for n >= 0
Digits(n) == IF n < 10 THEN <<DigitSeq[n + 1]>> ELSE Digits(n \div 10) \o <<DigitSeq[(n % 10) + 1]>>

\* n written with two digits
TwoDigits(n) == <<DigitSeq[((n \div 10) % 10) + 1], DigitSeq[(n % 10) + 1]>>

\* the year as the export writes it, with 2 or 4 digits
YearText(in) == IF in.ydigits = 2 THEN TwoDigits(in.year) ELSE Digits(in.year)

DateText(in) ==
    IF in.order = "DMY"
    THEN Digits(in.day) \o <<"/">> \o Digits(in.month) \o <<"/">> \o YearText(in)
    ELSE Digits(in.month) \o <<"/">> \o Digits(in.day) \o <<"/">> \o YearText(in)

TimeText(in) ==
    Digits(in.hour) \o <<":">> \o TwoDigits(in.minute)
        \o (IF in.second = <<>> THEN <<>> ELSE <<":">> \o TwoDigits(in.second[1]))
        \o in.marker

\* the timestamp of an export line
StampText(in) == DateText(in) \o <<",", " ">> \o TimeText(in)

\* the export line of a message, in the bracketed or the unbracketed shape
LineText(in) ==
    IF in.shape = "bracketed"
    THEN <<"[">> \o StampText(in) \o <<"]", " ">> \o in.author \o <<":", " ">> \o in.body
    ELSE StampText(in) \o <<" ", "-", " ">> \o in.author \o <<":", " ">> \o in.body

Alice == <<"A","l","i","c","e">>

HeyMerryChristmas ==
    <<"H","e","y","!"," ","M","e","r","r","y"," ","C","h","r","i","s","t","m","a","s","!">>

\* AM/PM markers: none, with a blank, without a blank, lower case
Markers == {<<>>, <<" ","A","M">>, <<" ","P","M">>, <<"P","M">>, <<" ","p","m">>, <<"a","m">>}

SpacedMarkers == {<<" ","A","M">>, <<" ","P","M">>, <<" ","p","m">>}

Authors == {<<"A">>, <<"A",":","B">>}

Bodies == {<<"x">>, <<"b",":"," ","c">>}

\* the fields a timestamp is written from
StampFields ==
    [order : {"DMY", "MDY"}, day : {3, 25}, month : {12}, year : {2023},
     ydigits : {2, 4}, hour : {10, 22}, minute : {30}, second : {<<>>, <<0>>, <<7>>},
     marker : Markers]

\* lines to classify: every shape, date order, year width, time and marker
LineInputs ==
    {[kind |-> "line", shape |-> sh, order |-> f.order, day |-> f.day, month |-> f.month,
      year |-> f.year, ydigits |-> f.ydigits, hour |-> f.hour, minute |-> f.minute,
      second |-> f.second, marker |-> f.marker, author |-> a, body |-> b] :
        sh \in {"bracketed", "unbracketed"}, f \in StampFields, a \in Authors, b \in Bodies}

\* timestamps to normalise
StampInputs ==
    {[kind |-> "stamp", shape |-> "none", order |-> f.order, day |-> f.day,
      month |-> f.month, year |-> f.year, ydigits |-> f.ydigits, hour |-> f.hour,
      minute |-> f.minute, second |-> f.second, marker |-> f.marker,
      author |-> <<>>, body |-> <<>>] : f \in StampFields}

\* the two scenario lines of the tests:
\* 12/25/2023, 10:30 AM - Alice: Hey! Merry Christmas!
ScenarioAndroid ==
    [kind |-> "line", shape |-> "unbracketed", order |-> "MDY", day |-> 25, month |-> 12,
     year |-> 2023, ydigits |-> 4, hour |-> 10, minute |-> 30, second |-> <<>>,
     marker |-> <<" ","A","M">>, author |-> Alice, body |-> HeyMerryChristmas]

\* [12/25/2023, 10:30:00 AM] Alice: Hey! Merry Christmas!
ScenarioIos ==
    [kind |-> "line", shape |-> "bracketed", order |-> "MDY", day |-> 25, month |-> 12,
     year |-> 2023, ydigits |-> 4, hour |-> 10, minute |-> 30, second |-> <<0>>,
     marker |-> <<" ","A","M">>, author |-> Alice, body |-> HeyMerryChristmas]

Inputs == LineInputs \cup StampInputs \cup {ScenarioAndroid, ScenarioIos}

\* the text handed to the function
InputText == IF input.kind = "stamp" THEN StampText(input) ELSE LineText(input)

InitLine ==
    /\ ParserInit
    /\ AnalysisIdle
    /\ input \in Inputs
    /\ phase = "start"
    /\ match = <<>>
    /\ tried = <<>>
    /\ parsed = <<>>
    /\ built = <<>>
    /\ flags = <<>>

\* _match_message(line)
MatchLine ==
    /\ phase = "start"
    /\ input.kind = "line"
    /\ match' = match_message(InputText)
    /\ tried' = PatternsTried(InputText)
    /\ phase' = "matched"
    /\ UNCHANGED <<input, parsed, built, flags>>
    /\ UNCHANGED parserVars
    /\ UNCHANGED analysisVars

\* lines 78-85 on the match: the timestamp is parsed and the dict is built,
\* or the ValueError of _parse_datetime comes out
BuildMessage ==
    /\ phase = "matched"
    /\ match # <<>>
    /\ parsed' = parse_datetime(match[1][1])
    /\ built' = IF parse_datetime(match[1][1]) # <<>> THEN <<NewMessage(match[1])>> ELSE <<>>
    /\ phase' = "built"
    /\ UNCHANGED <<input, match, tried, flags>>
    /\ UNCHANGED parserVars
    /\ UNCHANGED analysisVars

\* _parse_datetime(timestamp)
ParseStamp ==
    /\ phase = "start"
    /\ input.kind = "stamp"
    /\ parsed' = parse_datetime(InputText)
    /\ phase' = "parsed"
    /\ UNCHANGED <<input, match, tried, built, flags>>
    /\ UNCHANGED parserVars
    /\ UNCHANGED analysisVars

NextLine ==
    \/ MatchLine
    \/ BuildMessage
    \/ ParseStamp

SpecLine == InitLine /\ [][NextLine]_vars

(***************************************************************************)
(* Properties of the Line Classifier and the Timestamp Normalizer           *)
(***************************************************************************)

NoColon(s) == \A i \in 1..Len(s) : s[i] # ":"

\* the hour is in range for the clock the marker implies
ClockInRange(in) == IF in.marker = <<>> THEN in.hour \in 0..23 ELSE in.hour \in 1..12

\* the calendar fields are in range
DateInRange(in) ==
    /\ in.month \in 1..12
    /\ in.day \in 1..DaysInMonth(in.year, in.month)

\* the groups the claim expects _match_message to capture
ExpectedGroups(in) == <<StampText(in), in.author, in.body>>

\* 12/25/2023, 10:30 AM - Alice: Hey! Merry Christmas!
ScenarioAndroidText ==
    <<"1","2","/","2","5","/","2","0","2","3",","," ","1","0",":","3","0"," ","A","M"," ","-"," ","A","l","i","c","e",":"," ","H","e","y","!"," ","M","e","r","r","y"," ","C","h","r","i","s","t","m","a","s","!">>

\* [12/25/2023, 10:30:00 AM] Alice: Hey! Merry Christmas!
ScenarioIosText ==
    <<"[","1","2","/","2","5","/","2","0","2","3",","," ","1","0",":","3","0",":","0","0"," ","A","M","]"," ","A","l","i","c","e",":"," ","H","e","y","!"," ","M","e","r","r","y"," ","C","h","r","i","s","t","m","a","s","!">>

\* a line [<date>, H:MM:SS AM/PM] <author>: <body> with fields in range
BracketedForm ==
    /\ input.kind = "line"
    /\ input.shape = "bracketed"
    /\ input.second # <<>>
    /\ input.marker \in SpacedMarkers
    /\ ClockInRange(input) /\ DateInRange(input)
    /\ NoColon(input.author)

\* C5: a line [<date>, H:MM:SS AM/PM] <author>: <body> with a valid date,
\* such as the bracketed scenario line, is matched as a 3-tuple with that
\* author and body, and parsing it yields a message with that author and
\* body whose timestamp carries the seconds.
C5_Bracketed ==
    (BracketedForm /\ phase \in {"matched", "built"}) =>
        /\ input = ScenarioIos => InputText = ScenarioIosText
        /\ match = <<ExpectedGroups(input)>>
        /\ phase = "built" =>
            /\ built # <<>>
            /\ built[1].author = input.author
            /\ built[1].message = input.body
            /\ built[1].datetime.second = input.second[1]

\* a line <date>, H:MM AM/PM - <author>: <body> with fields in range
UnbracketedForm ==
    /\ input.kind = "line"
    /\ input.shape = "unbracketed"
    /\ input.second = <<>>
    /\ input.marker \in SpacedMarkers
    /\ ClockInRange(input) /\ DateInRange(input)
    /\ NoColon(input.author)

\* C6: a line <date>, H:MM AM/PM - <author>: <body>, such as the unbracketed
\* scenario line, is matched as the 3-tuple (timestamp, author, body) and
\* yields a message with that author and body, is_media and is_system false;
\* the scenario line is dated 25 December 2023, 10:30.
C6_Unbracketed ==
    (UnbracketedForm /\ phase \in {"matched", "built"}) =>
        /\ match = <<ExpectedGroups(input)>>
        /\ phase = "built" =>
            /\ built # <<>>
            /\ built[1].author = input.author
            /\ built[1].message = input.body
            /\ built[1].is_media = FALSE
            /\ built[1].is_system = FALSE
            /\ input = ScenarioAndroid =>
                built[1].datetime = [year |-> 2023, month |-> 12, day |-> 25,
                                     hour |-> 10, minute |-> 30, second |-> 0]

\* the unbracketed scenario line has been matched and its message built
C6_Witness ==
    /\ phase = "built"
    /\ input = ScenarioAndroid
    /\ InputText = ScenarioAndroidText
    /\ built # <<>>
    /\ built[1].author = Alice

\* C7: every timestamp with in-range fields, day-first or month-first, with
\* a 2- or 4-digit year, 12-hour with AM/PM or 24-hour, with or without
\* seconds, is parsed by _parse_datetime.
C7_Coverage ==
    (/\ phase = "parsed"
     /\ input.kind = "stamp"
     /\ input.marker \in SpacedMarkers \cup {<<>>}
     /\ ClockInRange(input) /\ DateInRange(input)) =>
        parsed # <<>>

\* C8: every line in the bracketed or the unbracketed shape whose time is
\* H:MM or H:MM:SS, with no AM/PM marker or with one in either case, with or
\* without a blank before it, is recognised as a header.
C8_TimeGrammar ==
    (phase = "matched" /\ input.kind = "line" /\ NoColon(input.author)) =>
        match # <<>>

\* C23: every line that _match_message accepts as a header and whose date
\* and time fields are in range has a timestamp that _parse_datetime
\* parses, so the message is built; this includes a marker written without
\* a blank and a bracketed month-first timestamp with seconds.
C23_ClassifierNormalizerAgree ==
    (phase = "built" /\ DateInRange(input) /\ ClockInRange(input)) =>
        /\ parsed # <<>>
        /\ built # <<>>

\* what the code does with 12/25/2023, 10:30PM - A: x: the line is matched
\* and its timestamp is rejected
C23_AcceptedThenRejected ==
    /\ phase = "built"
    /\ input.shape = "unbracketed" /\ input.order = "MDY" /\ input.day = 25
    /\ input.ydigits = 4 /\ input.hour = 10 /\ input.second = <<>>
    /\ input.marker = <<"P", "M">>
    /\ match # <<>>
    /\ parsed = <<>>

\* the time grammars the three patterns have: bracketed with seconds and a
\* marker, unbracketed without seconds
RecognisedTime(in) ==
    \/ in.shape = "bracketed" /\ in.second # <<>> /\ in.marker # <<>>
    \/ in.shape = "unbracketed" /\ in.second = <<>>

\* C9 as stated: for every header line the author is the run up to the
\* first ": " and the body everything after it, also when the body holds
\* further ": " and when the author holds a colon not followed by a blank.
C9_AuthorBodySplit ==
    (phase = "matched" /\ RecognisedTime(input)) =>
        /\ match # <<>>
        /\ match[1][2] = input.author
        /\ match[1][3] = input.body

\* what precedes the author in a line of the given shape
BeforeAuthor(in, stamp) ==
    IF in.shape = "bracketed" THEN <<"[">> \o stamp \o <<"]", " ">>
    ELSE stamp \o <<" ", "-", " ">>

\* C9 amended: in every line recognised as a header the author is the run
\* between the timestamp separator and the first colon, it holds no colon,
\* the colon is followed by a whitespace character and the body is
\* everything after that, also when the body holds further ": "; a line
\* whose author part holds a colon not followed by a blank is no header.
C9_SplitAtFirstColon ==
    phase = "matched" =>
        /\ match # <<>> =>
            /\ NoColon(match[1][2])
            /\ InputText = BeforeAuthor(input, match[1][1]) \o match[1][2]
                             \o <<":", " ">> \o match[1][3]
        /\ (RecognisedTime(input) /\ NoColon(input.author)) =>
            /\ match # <<>>
            /\ match[1][2] = input.author
            /\ match[1][3] = input.body
        /\ ~NoColon(input.author) => match = <<>>

\* a header whose body holds a further ": " has been split
C9_Witness ==
    /\ phase = "matched"
    /\ match # <<>>
    /\ input.body = <<"b", ":", " ", "c">>
    /\ match[1][3] = input.body

\* C10 as stated: the bracketed grammar is tried before the unbracketed
\* ones (and strict time before loose time), the first match winning.
C10_BracketedFirst ==
    phase = "matched" =>
        \A i \in 1..Len(tried) :
            tried[i] \in {"ANDROID", "ALTERNATIVE"} =>
                \E j \in 1..(i - 1) : tried[j] = "IOS"

\* the patterns that match the input line
Hits == {p \in {ANDROID_PATTERN, IOS_PATTERN, ALTERNATIVE_PATTERN} : Matches(p, InputText)}

\* C10 amended: the grammars are tried in the fixed order unbracketed with
\* AM/PM, bracketed, unbracketed without AM/PM (strict time before loose
\* time) and the first match is returned; no line matches more than one
\* grammar, so none matches both the bracketed and an unbracketed one.
C10_FixedOrder ==
    phase = "matched" =>
        /\ Len(tried) >= 1
        /\ tried = SubSeq(<<"ANDROID", "IOS", "ALTERNATIVE">>, 1, Len(tried))
        /\ Cardinality(Hits) <= 1
        /\ match = <<>> => (Hits = {} /\ Len(tried) = 3)
        /\ match # <<>> =>
            \E p \in Hits : p.name = tried[Len(tried)] /\ match = <<Groups(p, InputText)>>

\* a bracketed line matched by the second pattern tried
C10_Witness ==
    /\ phase = "matched"
    /\ input.shape = "bracketed"
    /\ match # <<>>
    /\ tried = <<"ANDROID", "IOS">>

(***************************************************************************)
(* Direct calls of _is_media_message and _is_system_message                 *)
(***************************************************************************)

UpperChar(c) ==
    IF \E i \in 1..Len(LowerSeq) : LowerSeq[i] = c
    THEN UpperSeq[CHOOSE i \in 1..Len(LowerSeq) : LowerSeq[i] = c]
    ELSE c

\* str.upper
Upper(s) == [i \in 1..Len(s) |-> UpperChar(s[i])]

System == <<"S","y","s","t","e","m">>

JustANormalMessage ==
    <<"J","u","s","t"," ","a"," ","n","o","r","m","a","l"," ","m","e","s","s","a","g","e">>

HeyThere == <<"H","e","y"," ","t","h","e","r","e","!">>

MediaOmitted == media_indicators[1]

\* texts that hold no indicator, two of them pieces of indicators
PlainTexts == {JustANormalMessage, HeyThere,
               <<"o","m","i","t","t","e","d">>, <<"j","p","g">>}

\* the words a body is built around
Cores ==
    {media_indicators[i] : i \in 1..Len(media_indicators)}
        \cup {system_indicators[i] : i \in 1..Len(system_indicators)}
        \cup PlainTexts

\* bodies to classify: a core, alone or inside a sentence, as written, in
\* upper case or in lower case, from either author
BodyInputs ==
    [kind : {"body"}, author : {Alice, System}, pre : {<<>>, Alice \o <<" ">>},
     core : Cores, post : {<<>>, <<" ","t","o"," ","T","e","s","t">>},
     fold : {"asis", "upper", "lower"}]

\* the body handed to the two methods
BodyText(in) ==
    LET s == in.pre \o in.core \o in.post
    IN  CASE in.fold = "upper" -> Upper(s)
          [] in.fold = "lower" -> Lower(s)
          [] OTHER -> s

InitClassify ==
    /\ ParserInit
    /\ AnalysisIdle
    /\ input \in BodyInputs
    /\ phase = "start"
    /\ match = <<>>
    /\ tried = <<>>
    /\ parsed = <<>>
    /\ built = <<>>
    /\ flags = <<>>

\* _is_media_message(message) and _is_system_message(author, message)
Classify ==
    /\ phase = "start"
    /\ input.kind = "body"
    /\ flags' = <<[is_media  |-> is_media_message(BodyText(input)),
                   is_system |-> is_system_message(input.author, BodyText(input))]>>
    /\ phase' = "classified"
    /\ UNCHANGED <<input, match, tried, parsed, built>>
    /\ UNCHANGED parserVars
    /\ UNCHANGED analysisVars

NextClassify == Classify

SpecClassify == InitClassify /\ [][NextClassify]_vars

(***************************************************************************)
(* Properties of the Message Classifier                                     *)
(***************************************************************************)

\* the same letter, in either case
SameLetter(a, b) ==
    \/ a = b
    \/ \E j \in 1..Len(LowerSeq) : {a, b} = {LowerSeq[j], UpperSeq[j]}

\* the indicator stands in the body at offset off, whatever the case
StandsAt(body, ind, off) ==
    /\ off + Len(ind) <= Len(body)
    /\ \A i \in 1..Len(ind) : SameLetter(body[off + i], ind[i])

\* the body holds one of the indicators, compared case-insensitively
Mentions(body, indicators) ==
    \E k \in 1..Len(indicators) : \E off \in 0..Len(body) :
        StandsAt(body, indicators[k], off)

\* C12: _is_media_message(body) is true exactly when the body holds, compared
\* case-insensitively, one of the media indicators; '<Media omitted>' is
\* media and not system, 'Just a normal message' is not media.
C12_MediaDetection ==
    phase = "classified" =>
        /\ flags[1].is_media = Mentions(BodyText(input), media_indicators)
        /\ BodyText(input) = MediaOmitted =>
                flags[1].is_media /\ ~flags[1].is_system
        /\ BodyText(input) = JustANormalMessage => ~flags[1].is_media

\* an indicator found in another case inside a sentence
C12_Witness ==
    /\ phase = "classified"
    /\ input.fold = "upper"
    /\ input.pre # <<>>
    /\ input.core = <<".","j","p","g">>
    /\ flags[1].is_media

\* C13: _is_system_message(author, body) is true exactly when the body holds,
\* compared case-insensitively, one of the system indicators, whoever the
\* author is; author 'Alice' with 'Hey there!' is not system, author 'System'
\* with 'Alice changed the subject to Test' is.
C13_SystemDetection ==
    phase = "classified" =>
        /\ flags[1].is_system = Mentions(BodyText(input), system_indicators)
        /\ (input.author = Alice /\ BodyText(input) = HeyThere) => ~flags[1].is_system
        /\ (input.author = System /\ input.fold = "asis" /\ input.pre # <<>>
                /\ input.core = system_indicators[1] /\ input.post # <<>>)
               => flags[1].is_system

\* 'Alice changed the subject to Test' from author Alice is system as well
C13_Witness ==
    /\ phase = "classified"
    /\ input.author = Alice
    /\ input.fold = "asis"
    /\ input.pre # <<>>
    /\ input.core = system_indicators[1]
    /\ input.post # <<>>
    /\ flags[1].is_system

\* C28: the author handed to _is_system_message does not influence its
\* result: the flag computed for a body with one author is the flag the
\* same body gets with any other author.
C28_AuthorIrrelevant ==
    phase = "classified" =>
        \A a \in {Alice, System, <<>>, BodyText(input)} :
            is_system_message(a, BodyText(input)) = flags[1].is_system

\* 'Hey there!' from the author System is not a system message
C28_Witness ==
    /\ phase = "classified"
    /\ input.author = System
    /\ BodyText(input) = HeyThere
    /\ ~flags[1].is_system

(***************************************************************************)
(* The Chat Table and its consumers: get_chat_info, ChatAnalyzer and        *)
(* GroupChatAnalyzer.  A DataFrame is the sequence of its rows, a row is a  *)
(* record whose fields are the columns; the frame without rows, as          *)
(* pd.DataFrame([]) builds it, has no columns.  Group results are functions *)
(* from the group key to the aggregate; their row order is not modelled.    *)
(* Means and percentages are quotients of the sums and counts modelled.     *)
(***************************************************************************)

\* df.columns
Columns(rows) == IF rows = <<>> THEN {} ELSE DOMAIN rows[1]

\* a call that returned v
Returned(op, v) == [op |-> op, raised |-> "", value |-> <<v>>]

\* a call that raised
Raised(op, exc) == [op |-> op, raised |-> exc, value |-> <<>>]

\* the values of a column, in row order
Column(rows, c) == [i \in 1..Len(rows) |-> rows[i][c]]

RECURSIVE UniqueFrom(_, _, _)
UniqueFrom(s, i, acc) ==
    IF i > Len(s) THEN acc
    ELSE UniqueFrom(s, i + 1,
                    IF \E j \in 1..Len(acc) : acc[j] = s[i] THEN acc ELSE Append(acc, s[i]))

\* Series.unique(): the distinct values in order of first appearance
unique(s) == UniqueFrom(s, 1, <<>>)

\* Series.sum() of a boolean column
CountTrue(rows, c) == Cardinality({i \in 1..Len(rows) : rows[i][c]})

\* Series.min() and Series.max() of the datetime column
MinDatetime(rows) ==
    rows[CHOOSE i \in 1..Len(rows) : \A j \in 1..Len(rows) :
                        DtLeq(rows[i].datetime, rows[j].datetime)].datetime

MaxDatetime(rows) ==
    rows[CHOOSE i \in 1..Len(rows) : \A j \in 1..Len(rows) :
                        DtLeq(rows[j].datetime, rows[i].datetime)].datetime

\* get_chat_info with lines 212-213 reading the column as it stands, one
\* participant per row
chat_info_PerRow(df) ==
    IF df = <<>> \/ df[1] = <<>> THEN <<>>
    ELSE <<[total_messages    |-> Len(df[1]),
            participants      |-> Len(Column(df[1], "author")),
            participant_names |-> Column(df[1], "author"),
            date_range        |-> [start |-> MinDatetime(df[1]), end |-> MaxDatetime(df[1])],
            media_messages    |-> CountTrue(df[1], "is_media"),
            system_messages   |-> CountTrue(df[1], "is_system"),
            text_messages     |-> Cardinality({i \in 1..Len(df[1]) :
                                      ~df[1][i].is_media /\ ~df[1][i].is_system})]>>

\* get_chat_info with line 220 taking the text messages as the rest, as if
\* no message were both media and system
chat_info_Exclusive(df) ==
    IF df = <<>> \/ df[1] = <<>> THEN <<>>
    ELSE <<[total_messages    |-> Len(df[1]),
            participants      |-> Cardinality({df[1][i].author : i \in 1..Len(df[1])}),
            participant_names |-> unique(Column(df[1], "author")),
            date_range        |-> [start |-> MinDatetime(df[1]), end |-> MaxDatetime(df[1])],
            media_messages    |-> CountTrue(df[1], "is_media"),
            system_messages   |-> CountTrue(df[1], "is_system"),
            text_messages     |-> Len(df[1]) - CountTrue(df[1], "is_media")
                                      - CountTrue(df[1], "is_system")]>>

\* get_chat_info, lines 207-221; <<>> stands for the empty dict
chat_info(df) ==
    IF df = <<>> \/ df[1] = <<>> THEN <<>>
    ELSE <<[total_messages    |-> Len(df[1]),
            participants      |-> Cardinality({df[1][i].author : i \in 1..Len(df[1])}),
            participant_names |-> unique(Column(df[1], "author")),
            date_range        |-> [start |-> MinDatetime(df[1]), end |-> MaxDatetime(df[1])],
            media_messages    |-> CountTrue(df[1], "is_media"),
            system_messages   |-> CountTrue(df[1], "is_system"),
            text_messages     |-> Cardinality({i \in 1..Len(df[1]) :
                                      ~df[1][i].is_media /\ ~df[1][i].is_system})]>>

\* days before the first of month mo in year y
RECURSIVE DaysBeforeMonth(_, _)
DaysBeforeMonth(y, mo) ==
    IF mo = 1 THEN 0 ELSE DaysBeforeMonth(y, mo - 1) + DaysInMonth(y, mo - 1)

\* date.toordinal()
Ordinal(dt) ==
    365 * (dt.year - 1) + ((dt.year - 1) \div 4) - ((dt.year - 1) \div 100)
        + ((dt.year - 1) \div 400) + DaysBeforeMonth(dt.year, dt.month) + dt.day

\* (b - a).total_seconds() for datetimes at most a day apart
SecondsBetween(a, b) ==
    (Ordinal(b) - Ordinal(a)) * 86400 + (b.hour - a.hour) * 3600
        + (b.minute - a.minute) * 60 + (b.second - a.second)

\* line 316: (b - a).total_seconds() / 60 <= 120
WithinTwoHours(a, b) == Ordinal(b) - Ordinal(a) <= 1 /\ SecondsBetween(a, b) <= 7200

DayNames == <<"Monday", "Tuesday", "Wednesday", "Thursday", "Friday", "Saturday", "Sunday">>

\* Series.dt.day_name()
day_name(dt) == DayNames[((Ordinal(dt) + 6) % 7) + 1]

\* len(str(x).split()): the runs of non-blank characters
word_count(s) ==
    Cardinality({i \in 1..Len(s) :
        s[i] \notin Whitespace /\ (i = 1 \/ s[i - 1] \in Whitespace)})

\* the characters the url pattern repeats after '://', within the alphabet
UrlChar == Alphabet \ Whitespace

\* http[s]?://(...)+
UrlItems ==
    <<Lit("h"), Lit("t"), Lit("t"), Lit("p"), Rep({"s"}, 0, 1),
      Lit(":"), Lit("/"), Lit("/"), Plus(UrlChar)>>

\* _contains_url: re.search finds the pattern at some offset
contains_url(text) ==
    \E k \in 0..Len(text) : ReMatch(UrlItems, SubSeq(text, k + 1, Len(text))) # NoMatch

\* the one-character keys of emoji.EMOJI_DATA within the alphabet: none
EMOJI_DATA == {}

\* _extract_emojis
extract_emojis(text) == SelectSeq(text, LAMBDA c : c \in EMOJI_DATA)

\* _count_emojis
count_emojis(text) == Len(extract_emojis(text))

\* _prepare_data, lines 31-48, on one row
Enriched(r) ==
    r @@ [date           |-> [year |-> r.datetime.year, month |-> r.datetime.month,
                              day |-> r.datetime.day],
          time           |-> [hour |-> r.datetime.hour, minute |-> r.datetime.minute,
                              second |-> r.datetime.second],
          hour           |-> r.datetime.hour,
          day_of_week    |-> day_name(r.datetime),
          month          |-> r.datetime.month,
          year           |-> r.datetime.year,
          day_name       |-> day_name(r.datetime),
          message_length |-> Len(r.message),
          word_count     |-> word_count(r.message),
          has_url        |-> contains_url(r.message),
          emoji_count    |-> count_emojis(r.message),
          emojis         |-> extract_emojis(r.message)]

\* _prepare_data: nothing is added to an empty frame
prepare_data(rows) ==
    IF rows = <<>> THEN rows ELSE [i \in 1..Len(rows) |-> Enriched(rows[i])]

\* an analyzer working on the very frame it was given
copy_SameObject(rows) == [rows |-> rows, shared |-> TRUE]

\* dataframe.copy(): a frame of its own with the same rows
copy(rows) == [rows |-> rows, shared |-> FALSE]

\* a write to the frame held by an analyzer reaches the caller's frame only
\* when the two are one object
Written(held, rows, caller) == IF held.shared THEN <<rows>> ELSE caller

\* df[~df['is_system']]
NotSystem(rows) == SelectSeq(rows, LAMBDA r : ~r.is_system)

\* the rows of one author
RowsOf(rows, a) == SelectSeq(rows, LAMBDA r : r.author = a)

\* 'sum' of an integer column
RECURSIVE SumOf(_, _)
SumOf(rows, c) == IF rows = <<>> THEN 0 ELSE rows[1][c] + SumOf(Tail(rows), c)

\* the groupby('author').agg(...) of lines 69-76 on the rows of one author
AuthorStats(mine) ==
    [total_messages |-> Len(mine),
     total_chars    |-> SumOf(mine, "message_length"),
     total_words    |-> SumOf(mine, "word_count"),
     media_messages |-> CountTrue(mine, "is_media"),
     urls_shared    |-> CountTrue(mine, "has_url"),
     total_emojis   |-> SumOf(mine, "emoji_count")]

\* one entry per author of the rows
StatsPerAuthor(rows) ==
    [a \in {rows[i].author : i \in 1..Len(rows)} |-> AuthorStats(RowsOf(rows, a))]

\* get_user_stats
user_stats(rows) == StatsPerAuthor(NotSystem(rows))

HourAuthor(r) == <<r.hour, r.author>>

\* groupby(['hour', 'author']).size(): the size of each group of the rows
GroupSizes(rows) ==
    [k \in {HourAuthor(rows[i]) : i \in 1..Len(rows)} |->
        Cardinality({i \in 1..Len(rows) : HourAuthor(rows[i]) = k})]

\* get_hourly_activity: the size of each (hour, author) group
hourly_activity(rows) == GroupSizes(NotSystem(rows))

\* lines 307-316: the neighbours in the sorted rows that count as a response
ResponsePairs(sorted) ==
    SelectSeq([i \in 1..(Len(sorted) - 1) |-> <<sorted[i], sorted[i + 1]>>],
              LAMBDA p : /\ p[1].author # p[2].author
                         /\ WithinTwoHours(p[1].datetime, p[2].datetime))

\* lines 317-321, the time kept in seconds
ResponseEntry(p) ==
    [from_author           |-> p[1].author,
     to_author             |-> p[2].author,
     response_time_seconds |-> SecondsBetween(p[1].datetime, p[2].datetime)]

EntriesOf(pairs) == [k \in 1..Len(pairs) |-> ResponseEntry(pairs[k])]

\* calculate_response_times on the rows sorted by line 305
response_times(sorted) == EntriesOf(ResponsePairs(sorted))

\* GroupChatAnalyzer.__init__, lines 24-25: message_length is added when absent
WithMessageLength(rows) ==
    IF "message_length" \in Columns(rows) THEN rows
    ELSE [i \in 1..Len(rows) |-> rows[i] @@ [message_length |-> Len(rows[i].message)]]

\* line 21: len(self.df['author'].unique()) > 2
is_group(rows) == Len(unique(Column(rows, "author"))) > 2

\* Series.dt.floor('H')
FloorHour(dt) == [dt EXCEPT !.minute = 0, !.second = 0]

\* line 226: self.df['date_hour'] = self.df['datetime'].dt.floor('H')
WithDateHour(rows) ==
    [i \in 1..Len(rows) |->
        [c \in DOMAIN rows[i] \cup {"date_hour"} |->
            IF c = "date_hour" THEN FloorHour(rows[i].datetime) ELSE rows[i][c]]]

\* the hours in which the author wrote one of the rows
ActiveHours(rows, a) == {rows[i].date_hour : i \in {j \in 1..Len(rows) : rows[j].author = a}}

\* the hours in which every author of the pair wrote
CommonHours(rows, pair) ==
    {h \in {rows[i].date_hour : i \in 1..Len(rows)} :
        \A a \in pair : h \in ActiveHours(rows, a)}

\* lines 245-257: an entry for each pair of authors with a common hour
OverlapsOf(rows) ==
    [pair \in {q \in SUBSET {rows[i].author : i \in 1..Len(rows)} :
                  Cardinality(q) = 2 /\ CommonHours(rows, q) # {}} |->
        [overlap_hours |-> Cardinality(CommonHours(rows, pair)),
         total_hours   |-> [a \in pair |-> Cardinality(ActiveHours(rows, a))]]]

\* get_active_time_overlap on the frame that has the date_hour column
active_time_overlap(rows) == OverlapsOf(NotSystem(rows))

\* the characters of the alphabet in the order of their code points
CodeOrder ==
    <<"\t", "\n", "\r", " ", "!", "'", ",", "-", ".", "/">> \o DigitSeq
        \o <<":", "<", ">", "?">> \o UpperSeq \o <<"[", "]">> \o LowerSeq

\* the place of a character in that order
Rank(c) == CHOOSE i \in 1..Len(CodeOrder) : CodeOrder[i] = c

\* a < b for two str
StrLess(a, b) ==
    \E k \in 0..Len(a) :
        /\ k <= Len(b)
        /\ \A i \in 1..k : a[i] = b[i]
        /\ IF k = Len(a) THEN k < Len(b)
           ELSE k < Len(b) /\ Rank(a[k + 1]) < Rank(b[k + 1])

\* sorted(...) of a set of str
Sorted(S) ==
    [k \in 1..Cardinality(S) |->
        CHOOSE a \in S : Cardinality({b \in S : StrLess(b, a)}) = k - 1]

\* group_analyzer.py line 46-48: time_diff <= 30, in minutes, b not before a
WithinHalfHour(a, b) == Ordinal(b) - Ordinal(a) <= 1 /\ SecondsBetween(a, b) <= 1800

\* group_analyzer.py lines 42-50: how often the responder follows the other
\* author within 30 minutes in the sorted rows
Interactions(sorted, responder, original) ==
    Cardinality({i \in 2..Len(sorted) :
        /\ sorted[i].author = responder
        /\ sorted[i - 1].author = original
        /\ responder # original
        /\ WithinHalfHour(sorted[i - 1].datetime, sorted[i].datetime)})

\* get_interaction_matrix, lines 30-62: rows and columns are the authors of
\* the whole frame
interaction_matrix(rows, sorted) ==
    [responder \in {rows[i].author : i \in 1..Len(rows)} |->
        [original \in {rows[i].author : i \in 1..Len(rows)} |->
            Interactions(sorted, responder, original)]]

\* lines 75-77: the pairs user1 < user2 in the order of the two loops
PairsOf(authors) ==
    SelectSeq([n \in 1..(Len(authors) * Len(authors)) |->
                  <<authors[((n - 1) \div Len(authors)) + 1],
                    authors[((n - 1) % Len(authors)) + 1]>>],
              LAMBDA q : StrLess(q[1], q[2]))

\* line 79: the count of both directions
PairCount(matrix, q) == matrix[q[1]][q[2]] + matrix[q[2]][q[1]]

\* lines 80-81: the pairs with at least min_interactions
CountedPairs(matrix, min_interactions) ==
    SelectSeq(PairsOf(Sorted(DOMAIN matrix)),
              LAMBDA q : PairCount(matrix, q) >= min_interactions)

\* line 83: sorted(pairs, key=count, reverse=True), a stable sort
ByCountDescending(matrix, pairs) ==
    [k \in 1..Len(pairs) |->
        pairs[CHOOSE i \in 1..Len(pairs) :
                 Cardinality({j \in 1..Len(pairs) :
                     \/ PairCount(matrix, pairs[j]) > PairCount(matrix, pairs[i])
                     \/ PairCount(matrix, pairs[j]) = PairCount(matrix, pairs[i]) /\ j < i})
                   = k - 1]]

\* the tuples (user1, user2, count)
WithCount(matrix, pairs) ==
    [k \in 1..Len(pairs) |-> <<pairs[k][1], pairs[k][2], PairCount(matrix, pairs[k])>>]

\* get_conversation_pairs(min_interactions), lines 64-83
conversation_pairs(matrix, min_interactions) ==
    WithCount(matrix, ByCountDescending(matrix, CountedPairs(matrix, min_interactions)))

\* group_analyzer.py lines 282-284: time_gap > 1, in hours, b not before a
MoreThanAnHour(a, b) == Ordinal(b) - Ordinal(a) > 1 \/ SecondsBetween(a, b) > 3600

\* lines 281-285: the positions in the sorted rows that follow a gap of
\* more than an hour
StartsAt(sorted) ==
    SelectSeq([i \in 1..(Len(sorted) - 1) |-> i + 1],
              LAMBDA i : MoreThanAnHour(sorted[i - 1].datetime, sorted[i].datetime))

\* conversation_starters: the authors at those positions
Starters(sorted) == [k \in 1..Len(StartsAt(sorted)) |-> sorted[StartsAt(sorted)[k]].author]

\* round(x, 2) of the quotient a / b, in hundredths
Hundredths(a, b) == (200 * a + b) \div (2 * b)

\* lines 290-297: the entry of each author that started a conversation
StarterRows(rows, starters) ==
    [a \in {starters[k] : k \in 1..Len(starters)} |->
        [conversations_started |-> Cardinality({k \in 1..Len(starters) : starters[k] = a}),
         total_messages        |-> Len(RowsOf(rows, a)),
         starter_percentage    |->
             Hundredths(100 * Cardinality({k \in 1..Len(starters) : starters[k] = a}),
                        Len(starters))]]

\* line 396: starters.iloc[0]['author'], an author of the greatest count;
\* the sort of line 299 may put any of them first
TopStarters(table) ==
    {a \in DOMAIN table : \A b \in DOMAIN table :
        table[b].conversations_started <= table[a].conversations_started}

RECURSIVE SumHours(_, _)
\* the sum of the overlap_hours of the entries of the pairs in S
SumHours(overlaps, S) ==
    IF S = {} THEN 0
    ELSE overlaps[CHOOSE q \in S : TRUE].overlap_hours
             + SumHours(overlaps, S \ {CHOOSE q \in S : TRUE})

\* line 408: the mean of the overlap_hours column as a quotient, 0 when the
\* frame is empty
MeanOverlap(overlaps) ==
    IF DOMAIN overlaps = {} THEN [sum |-> 0, count |-> 1]
    ELSE [sum |-> SumHours(overlaps, DOMAIN overlaps), count |-> Cardinality(DOMAIN overlaps)]

\* C18: while _parse_content runs, every message already appended to the
\* list stays in its place with the datetime, author, body and flags it was
\* appended with, whatever line is processed next, and the stored list is
\* the list as it stood after the last append.
C18_SealedImmutable ==
    [][pc = "loop" =>
          /\ Len(messages') >= Len(messages)
          /\ \A k \in 1..Len(messages) : messages'[k] = messages[k]
          /\ pc' = "idle" /\ outcome' = "returned" => self_messages' = messages']_vars

\* a message was sealed by a second header, a continuation line was then
\* appended to the open message, and the input has ended
C18_Witness ==
    /\ pc = "loop"
    /\ idx > Len(lines)
    /\ Len(messages) >= 1
    /\ current_message # <<>>
    /\ \E i \in 1..Len(current_message[1].message) : current_message[1].message[i] = "\n"

\* only whitespace, the empty line included
OnlyWhitespace(l) == \A i \in 1..Len(l) : l[i] \in Whitespace

\* the lines that are not blank, in order
WithoutBlanks(ls) == SelectSeq(ls, LAMBDA l : ~OnlyWhitespace(l))

RECURSIVE AssembleFrom(_, _, _)
RECURSIVE AfterLine(_, _, _, _, _)
\* the messages assembled from the lines ls, none of them taken as blank,
\* with msgs sealed and cur open: <<list>>, or <<>> when a header's
\* timestamp is rejected
AssembleFrom(ls, msgs, cur) ==
    IF ls = <<>> THEN <<Seal(msgs, cur)>>
    ELSE AfterLine(Tail(ls), msgs, cur, ls[1], OnLine(ls[1]))

AfterLine(rest, msgs, cur, line, r) ==
    IF r.match = <<>> THEN AssembleFrom(rest, msgs, Continue(cur, line))
    ELSE IF r.dt = <<>> THEN <<>>
    ELSE AssembleFrom(rest, Seal(msgs, cur), r.msg)

\* the call ended as the assembly a did
EndedAs(a) ==
    IF a = <<>> THEN outcome = "ValueError"
    ELSE outcome = "returned" /\ self_messages = a[1]

\* C20: a line of whitespace only changes neither the list nor the open
\* message, and a load that read a file ends exactly as the assembly of the
\* file's other lines ends, so inputs that differ by blank lines only, wherever they
\* stand, produce the same messages.
C20_BlankInert ==
    /\ [][(pc = "loop" /\ idx <= Len(lines) /\ OnlyWhitespace(lines[idx]))
             => /\ messages' = messages
                /\ current_message' = current_message
                /\ pc' = pc]_vars
    /\ []((lines # <<>> /\ outcome \in {"returned", "ValueError"})
             => EndedAs(AssembleFrom(WithoutBlanks(InputLines), <<>>, <<>>)))

\* a blank line between a header and its continuation line, which was
\* appended to the header's message
C20_Witness ==
    /\ outcome = "returned"
    /\ Len(InputLines) = 3
    /\ IsHeader(InputLines[1])
    /\ InputLines[2] # <<>> /\ OnlyWhitespace(InputLines[2])
    /\ ~OnlyWhitespace(InputLines[3]) /\ ~IsHeader(InputLines[3])
    /\ Len(self_messages) = 1
    /\ self_messages[1].message
           = JoinLines(<<Strip(GroupsOf(InputLines[1])[1][3]), Strip(InputLines[3])>>)

\* the lines, each trimmed
StripAll(s) == [j \in 1..Len(s) |-> Strip(s[j])]

\* the captured body of header line i, trimmed, followed by the trimmed
\* non-blank lines between line i and the next header
BlockBody(ls, hdr, i) ==
    JoinLines(<<Strip(GroupsOf(ls[i])[1][3])>>
              \o StripAll(WithoutBlanks(SubSeq(ls, i + 1, BlockLast(ls, hdr, i)))))

\* the messages msgs account for the lines ls with headers at hdr
Accounts(msgs, ls, hdr) ==
    /\ Len(msgs) = Cardinality(hdr)
    /\ \A k \in 1..Len(msgs) :
          /\ msgs[k].message = BlockBody(ls, hdr, NthHeader(hdr, k))
          /\ msgs[k].author = Strip(GroupsOf(ls[NthHeader(hdr, k)])[1][2])

\* C21: when the pass over a file has ended, nothing is left open, there is
\* one message per header line, the body of each is its header's body
\* followed by exactly the non-blank lines up to the next header, so a line
\* after a header is in the one message of the nearest header before it
\* and a line before the first header is in none.
C21_Accounted ==
    (lines # <<>> /\ outcome = "returned") =>
        /\ pc = "idle"
        /\ self_messages = messages
        /\ Accounts(self_messages, InputLines, HeaderIdx(InputLines))

\* a line before the first header was dropped and a line after it was
\* appended to its message
C21_Witness ==
    /\ outcome = "returned"
    /\ Len(InputLines) = 3
    /\ ~IsHeader(InputLines[1]) /\ ~OnlyWhitespace(InputLines[1])
    /\ IsHeader(InputLines[2])
    /\ ~IsHeader(InputLines[3]) /\ ~OnlyWhitespace(InputLines[3])
    /\ Len(self_messages) = 1
    /\ self_messages[1].message
           = JoinLines(<<Strip(GroupsOf(InputLines[2])[1][3]), Strip(InputLines[3])>>)

\* the sample lines that are a character followed by a header
PrefixedLines ==
    {l \in DOMAIN LineTable : Len(l) >= 2 /\ match_message(Tail(l)) # <<>>}

\* the headers before line i
HeadersBefore(hdr, i) == {j \in hdr : j < i}

\* line i, which is no header, was treated as a continuation line: appended
\* trimmed to the message of the nearest header before it, part of no
\* message when there is none
Continued(msgs, ls, hdr, i) ==
    IF HeadersBefore(hdr, i) = {}
    THEN \A k \in 1..Len(msgs) :
            \A n \in 1..Len(SplitLines(msgs[k].message)) :
                SplitLines(msgs[k].message)[n] # Strip(ls[i])
    ELSE \E k \in 1..Len(msgs) :
            /\ NthHeader(hdr, k) = NthOf(HeadersBefore(hdr, i), Cardinality(HeadersBefore(hdr, i)))
            /\ msgs[k].message = BlockBody(ls, hdr, NthHeader(hdr, k))
            /\ \E n \in 2..Len(SplitLines(msgs[k].message)) :
                  SplitLines(msgs[k].message)[n] = Strip(ls[i])

Probe == <<"A", ":", " ", "x">>

\* the text has no colon followed by a blank
NoColonBlank(t) == \A n \in 1..(Len(t) - 1) : ~(t[n] = ":" /\ t[n + 1] \in Whitespace)

\* the line starts as a header does, up to the place of the author
HeaderStart(p) ==
    /\ match_message(p \o Probe) # <<>>
    /\ match_message(p \o Probe)[1][2] = <<"A">>
    /\ match_message(p \o Probe)[1][3] = <<"x">>

\* the sample lines that are a timestamp part followed by a text without
\* 'author: '
NoAuthorLines ==
    {l \in DOMAIN LineTable :
        \E k \in 1..(Len(l) - 1) :
            /\ NoColonBlank(SubSeq(l, k + 1, Len(l)))
            /\ l[Len(l)] # ":"
            /\ HeaderStart(SubSeq(l, 1, k))}

\* C27: a line that has a timestamp part but no 'author: ' after it is no
\* header: it opens no message, it is appended to the open message as a
\* continuation line, and it is dropped when no message is open.
C27_NoAuthorNoHeader ==
    \A i \in 1..Len(lines) :
        lines[i] \in NoAuthorLines =>
            /\ ~IsHeader(lines[i])
            /\ OnLine(lines[i]).msg = <<>>
            /\ outcome = "returned" =>
                  /\ Len(self_messages) = Cardinality(HeaderIdx(lines) \ {i})
                  /\ Continued(self_messages, lines, HeaderIdx(lines) \ {i}, i)

\* the notice followed a header and is the second line of its message
C27_Witness ==
    /\ outcome = "returned"
    /\ Len(lines) = 2
    /\ lines[1] \notin NoAuthorLines
    /\ lines[2] \in NoAuthorLines
    /\ Len(self_messages) = 1
    /\ SplitLines(self_messages[1].message) = <<Strip(GroupsOf(lines[1])[1][3]), lines[2]>>

\* the notice alone in a file produced no message
C27_WitnessDropped ==
    /\ outcome = "returned"
    /\ Len(lines) = 1
    /\ lines[1] \in NoAuthorLines
    /\ self_messages = <<>>

\* the formats of the list that put the day first, and those that put the
\* month first
FormatsOf == [c \in {"day-first", "month-first"} |->
                 IF c = "day-first" THEN {1, 2, 5, 6, 9, 10} ELSE {3, 4, 7, 8}]

\* the datetimes the formats fs make of the timestamp s
ReadUnder(s, fs) ==
    {strptime(s, formats[k])[1] : k \in {n \in fs : strptime(s, formats[n]) # <<>>}}

\* for each sample header, its timestamp read under either convention
ReadingTable ==
    [l \in {x \in DOMAIN LineTable : match_message(x) # <<>>} |->
        [c \in DOMAIN FormatsOf |-> ReadUnder(Strip(match_message(l)[1][1]), FormatsOf[c])]]

\* every header of the lines has a month-first reading and these readings
\* increase down the file
MonthFirstExport(ls, hdr) ==
    /\ hdr # {}
    /\ \A i \in hdr : ReadingTable[ls[i]]["month-first"] # {}
    /\ \A i, j \in hdr :
          i < j => \A a \in ReadingTable[ls[i]]["month-first"] :
                      \A b \in ReadingTable[ls[j]]["month-first"] : DtLess(a, b)

\* C24: for an export whose headers are all month-first and in
\* chronological order, all timestamps are read under one convention and
\* the returned table has the messages in file order.
C24_OneConvention ==
    (outcome = "returned" /\ MonthFirstExport(lines, HeaderIdx(lines))) =>
        /\ \E c \in DOMAIN FormatsOf :
              \A k \in 1..Len(self_messages) :
                  self_messages[k].datetime
                      \in ReadingTable[lines[NthHeader(HeaderIdx(lines), k)]][c]
        /\ returned = <<self_messages>>

\* what the code does with the export of 1/5/23 and 1/13/23: the first is
\* read as the 1st of May, the second as the 13th of January, and the table
\* has the second message first
C24_MixedReadings ==
    /\ outcome = "returned"
    /\ lines = <<HdrJan5, HdrJan13>>
    /\ self_messages[1].datetime.month = 5 /\ self_messages[1].datetime.day = 1
    /\ self_messages[2].datetime.month = 1 /\ self_messages[2].datetime.day = 13
    /\ returned = <<<<self_messages[2], self_messages[1]>>>>

(***************************************************************************)
(* The consumers of the table: get_chat_info and the two analyzers, called *)
(* as app.py calls them, on the table load_chat returned                   *)
(***************************************************************************)

\* what a call of a consumer never assigns
loadVars == <<pc, path, content, lines, idx, messages, current_message,
              self_messages, outcome>>

\* ChatParser.get_chat_info, lines 201-221
GetChatInfo ==
    /\ pc = "idle"
    /\ result' = Returned("get_chat_info", chat_info(self_df))
    /\ UNCHANGED <<chat_analyzer, group_analyzer, self_df, returned>>
    /\ UNCHANGED loadVars
    /\ UNCHANGED lineVars

\* the analyzer holding the frame once _prepare_data has run on it
Prepared(held) == [held EXCEPT !.rows = prepare_data(held.rows)]

\* ChatAnalyzer(df), lines 15-23, on the returned table
NewChatAnalyzer ==
    /\ pc = "idle"
    /\ outcome = "returned"
    /\ chat_analyzer = <<>>
    /\ chat_analyzer' = <<Prepared(copy(returned[1]))>>
    /\ self_df' = Written(copy(returned[1]), prepare_data(returned[1]), self_df)
    /\ returned' = Written(copy(returned[1]), prepare_data(returned[1]), returned)
    /\ result' = Returned("ChatAnalyzer", "self")
    /\ UNCHANGED group_analyzer
    /\ UNCHANGED loadVars
    /\ UNCHANGED lineVars

\* the group analyzer holding the frame after lines 21-25
GroupHeld(held) ==
    [rows     |-> WithMessageLength(held.rows),
     shared   |-> held.shared,
     is_group |-> is_group(held.rows)]

\* GroupChatAnalyzer(df), lines 14-28: line 21 reads the author column
NewGroupChatAnalyzer ==
    /\ pc = "idle"
    /\ outcome = "returned"
    /\ group_analyzer = <<>>
    /\ IF "author" \in Columns(returned[1])
       THEN /\ group_analyzer' = <<GroupHeld(copy(returned[1]))>>
            /\ self_df' = Written(copy(returned[1]), WithMessageLength(returned[1]), self_df)
            /\ returned' = Written(copy(returned[1]), WithMessageLength(returned[1]), returned)
            /\ result' = Returned("GroupChatAnalyzer", "self")
       ELSE /\ result' = Raised("GroupChatAnalyzer", "KeyError")
            /\ UNCHANGED <<group_analyzer, self_df, returned>>
    /\ UNCHANGED chat_analyzer
    /\ UNCHANGED loadVars
    /\ UNCHANGED lineVars

\* ChatAnalyzer.get_user_stats, lines 63-90: line 69 reads the is_system column
GetUserStats ==
    /\ chat_analyzer # <<>>
    /\ result' = IF "is_system" \in Columns(chat_analyzer[1].rows)
                 THEN Returned("get_user_stats", user_stats(chat_analyzer[1].rows))
                 ELSE Raised("get_user_stats", "KeyError")
    /\ UNCHANGED <<chat_analyzer, group_analyzer, self_df, returned>>
    /\ UNCHANGED loadVars
    /\ UNCHANGED lineVars

\* ChatAnalyzer.get_hourly_activity, lines 108-117
GetHourlyActivity ==
    /\ chat_analyzer # <<>>
    /\ result' = IF "is_system" \in Columns(chat_analyzer[1].rows)
                 THEN Returned("get_hourly_activity", hourly_activity(chat_analyzer[1].rows))
                 ELSE Raised("get_hourly_activity", "KeyError")
    /\ UNCHANGED <<chat_analyzer, group_analyzer, self_df, returned>>
    /\ UNCHANGED loadVars
    /\ UNCHANGED lineVars

\* ChatAnalyzer.calculate_response_times, lines 296-326; the sort of line 305
\* may leave rows of equal datetime in any order
CalculateResponseTimes ==
    /\ chat_analyzer # <<>>
    /\ IF "is_system" \in Columns(chat_analyzer[1].rows)
       THEN \E sorted \in sort_values(NotSystem(chat_analyzer[1].rows)) :
                result' = Returned("calculate_response_times", response_times(sorted))
       ELSE result' = Raised("calculate_response_times", "KeyError")
    /\ UNCHANGED <<chat_analyzer, group_analyzer, self_df, returned>>
    /\ UNCHANGED loadVars
    /\ UNCHANGED lineVars

\* the group analyzer once line 226 has written the date_hour column
Floored(held) == [held EXCEPT !.rows = WithDateHour(held.rows)]

\* GroupChatAnalyzer.get_active_time_overlap, lines 219-267
GetActiveTimeOverlap ==
    /\ group_analyzer # <<>>
    /\ group_analyzer' = <<Floored(group_analyzer[1])>>
    /\ self_df' = Written(group_analyzer[1], WithDateHour(group_analyzer[1].rows), self_df)
    /\ returned' = Written(group_analyzer[1], WithDateHour(group_analyzer[1].rows), returned)
    /\ result' = Returned("get_active_time_overlap",
                          active_time_overlap(WithDateHour(group_analyzer[1].rows)))
    /\ UNCHANGED chat_analyzer
    /\ UNCHANGED loadVars
    /\ UNCHANGED lineVars

NextAnalyze ==
    \/ LoadChatNoPath
    \/ LoadChatMissing
    \/ LoadChat
    \/ SkipBlank
    \/ HeaderLine
    \/ HeaderRaises
    \/ ContinuationLine
    \/ FinishLoad
    \/ GetChatInfo
    \/ NewChatAnalyzer
    \/ NewGroupChatAnalyzer
    \/ GetUserStats
    \/ GetHourlyActivity
    \/ CalculateResponseTimes
    \/ GetActiveTimeOverlap

SpecAnalyze == Init /\ [][NextAnalyze]_vars

(***************************************************************************)
(* Properties of the consumers of the table                                *)
(***************************************************************************)

\* the table load_chat returned has no message
EmptyTable == outcome = "returned" /\ returned = << <<>> >>

\* C15: on the empty table that load_chat returns for an input without
\* messages, the summary, the construction of both analyzers and every
\* aggregation return a result; none of them fails.
C15_EmptyAggregations == EmptyTable => result.raised = ""

\* what the code does on the empty table: the aggregations of ChatAnalyzer
\* and the constructor of GroupChatAnalyzer raise KeyError
C15_RaisesOnEmpty ==
    /\ EmptyTable
    /\ result \in {Raised("get_user_stats", "KeyError"),
                   Raised("GroupChatAnalyzer", "KeyError")}

\* the rows in which a flag column holds
Flagged(rows, c) == {i \in 1..Len(rows) : rows[i][c]}

\* d is the summary of the rows
SummaryOf(d, rows) ==
    /\ d.total_messages = Len(rows)
    /\ d.total_messages > 0
    /\ d.participants = Cardinality({rows[i].author : i \in 1..Len(rows)})
    /\ d.participants = Len(d.participant_names)
    /\ d.participants >= 1
    /\ {d.participant_names[k] : k \in 1..Len(d.participant_names)}
           = {rows[i].author : i \in 1..Len(rows)}
    /\ \E i \in 1..Len(rows) : rows[i].datetime = d.date_range.start
    /\ \E i \in 1..Len(rows) : rows[i].datetime = d.date_range.end
    /\ \A i \in 1..Len(rows) : /\ DtLeq(d.date_range.start, rows[i].datetime)
                                /\ DtLeq(rows[i].datetime, d.date_range.end)
    /\ d.media_messages = Cardinality(Flagged(rows, "is_media"))
    /\ d.system_messages = Cardinality(Flagged(rows, "is_system"))
    /\ d.text_messages = Len(rows)
           - Cardinality(Flagged(rows, "is_media") \cup Flagged(rows, "is_system"))

\* C17: a call of get_chat_info after a load that produced messages returns
\* the summary of the parser's table: total_messages is the number of rows
\* and positive, participants is the number of distinct authors, the length
\* of participant_names and at least 1, date_range holds the least and the
\* greatest datetime, and the media, system and text counts are those of
\* the flag columns.
C17_Summary ==
    [][(GetChatInfo /\ outcome = "returned" /\ self_messages # <<>>)
          => /\ result'.raised = ""
             /\ result'.value[1] # <<>>
             /\ SummaryOf(result'.value[1][1], self_df[1])]_vars

\* a summary of several messages, fewer authors than messages, over more
\* than one instant, with a media message among them
C17_Witness ==
    /\ outcome = "returned"
    /\ result.op = "get_chat_info"
    /\ result.value[1] # <<>>
    /\ result.value[1][1].participants < result.value[1][1].total_messages
    /\ result.value[1][1].participants >= 2
    /\ result.value[1][1].date_range.start # result.value[1][1].date_range.end
    /\ result.value[1][1].media_messages >= 1

\* a step of one of the analyzers
AnalyzerStep ==
    \/ NewChatAnalyzer
    \/ NewGroupChatAnalyzer
    \/ GetUserStats
    \/ GetHourlyActivity
    \/ CalculateResponseTimes
    \/ GetActiveTimeOverlap

\* C19: constructing ChatAnalyzer or GroupChatAnalyzer from the parser's
\* table and calling their aggregations, in any order, leaves the parser's
\* table, the table the caller holds and the parser's message list as they
\* were: same rows, same columns, same values.
C19_TableUntouched ==
    [][AnalyzerStep => /\ self_df' = self_df
                       /\ returned' = returned
                       /\ self_messages' = self_messages]_vars

\* both analyzers have written their columns, an aggregation has run, and
\* the parser's table still has the five columns of the parser
C19_Witness ==
    /\ chat_analyzer # <<>>
    /\ group_analyzer # <<>>
    /\ "word_count" \in Columns(chat_analyzer[1].rows)
    /\ "date_hour" \in Columns(group_analyzer[1].rows)
    /\ result.op = "calculate_response_times"
    /\ result.value[1] # <<>>
    /\ Columns(self_df[1]) = {"datetime", "author", "message", "is_media", "is_system"}

\* the three counts of the summary d against the rows it was taken from
CountsRelate(d, rows) ==
    /\ d.media_messages + d.system_messages + d.text_messages >= d.total_messages
    /\ (d.media_messages + d.system_messages + d.text_messages = d.total_messages)
          <=> (\A i \in 1..Len(rows) : ~(rows[i].is_media /\ rows[i].is_system))
    /\ d.text_messages
          = Cardinality({i \in 1..Len(rows) : ~rows[i].is_media /\ ~rows[i].is_system})

\* C29: in the summary, text_messages counts the messages that are neither
\* media nor system, so media_messages + system_messages + text_messages is
\* at least total_messages, and equal to it exactly when no message of the
\* table is both media and system.
C29_CountsCoverTotal ==
    (result.op = "get_chat_info" /\ result.value # <<>> /\ result.value[1] # <<>>)
        => CountsRelate(result.value[1][1], self_df[1])

\* a summary of a table with a message that is both media and system: the
\* three counts add up to more than the total
C29_Witness ==
    /\ result.op = "get_chat_info"
    /\ result.value # <<>> /\ result.value[1] # <<>>
    /\ \E i \in 1..Len(self_df[1]) : self_df[1][i].is_media /\ self_df[1][i].is_system
    /\ \E i \in 1..Len(self_df[1]) : ~self_df[1][i].is_media /\ ~self_df[1][i].is_system
    /\ result.value[1][1].media_messages + result.value[1][1].system_messages
           + result.value[1][1].text_messages > result.value[1][1].total_messages

(***************************************************************************)
(* load_chat called again on a parser that has been used                   *)
(***************************************************************************)

\* the files a used parser is asked to read: one message, a message and a
\* header no format parses, a message of two lines, and the empty file
ReloadFiles ==
    {<<HdrIos>>, <<HdrAndroid, HdrBadStamp>>, <<HdrAlternative, ContLine>>, <<>>}

ReloadContents == {JoinLines(ls) : ls \in ReloadFiles}

\* load_chat on a used parser, lines 33-35: no path is given
ReloadNoPath ==
    /\ pc = "idle"
    /\ outcome # "none"
    /\ path' = ""
    /\ outcome' = "ValueError"
    /\ returned' = <<>>
    /\ UNCHANGED <<pc, content, lines, idx, messages, current_message,
                   self_messages, self_df>>
    /\ UNCHANGED lineVars
    /\ UNCHANGED analysisVars

\* load_chat on a used parser, lines 36-38: the path does not exist
ReloadMissing ==
    /\ pc = "idle"
    /\ outcome # "none"
    /\ \E p \in Paths \ {""} :
        /\ ~exists(p)
        /\ path' = p
    /\ outcome' = "FileNotFoundError"
    /\ returned' = <<>>
    /\ UNCHANGED <<pc, content, lines, idx, messages, current_message,
                   self_messages, self_df>>
    /\ UNCHANGED lineVars
    /\ UNCHANGED analysisVars

\* load_chat on a used parser, lines 33-44: the file is read and split,
\* _parse_content starts from an empty list of its own
Reload ==
    /\ pc = "idle"
    /\ outcome # "none"
    /\ \E p \in Paths \ {""} :
        /\ exists(p)
        /\ path' = p
    /\ \E c \in ReloadContents :
        /\ content' = c
        /\ lines' = SplitLines(c)
    /\ pc' = "loop"
    /\ idx' = 1
    /\ messages' = <<>>
    /\ current_message' = <<>>
    /\ UNCHANGED <<self_messages, self_df, outcome, returned>>
    /\ UNCHANGED lineVars
    /\ UNCHANGED analysisVars

NextReload ==
    \/ LoadChatNoPath
    \/ LoadChatMissing
    \/ LoadChat
    \/ SkipBlank
    \/ HeaderLine
    \/ HeaderRaises
    \/ ContinuationLine
    \/ FinishLoad
    \/ ReloadNoPath
    \/ ReloadMissing
    \/ Reload
    \/ GetChatInfo

SpecReload == Init /\ [][NextReload]_vars

(***************************************************************************)
(* Properties of repeated loads                                            *)
(***************************************************************************)

\* a step of a call of load_chat other than its storing of the result
BeforeStoring ==
    \/ LoadChatNoPath \/ LoadChatMissing \/ LoadChat
    \/ ReloadNoPath \/ ReloadMissing \/ Reload
    \/ SkipBlank \/ HeaderLine \/ ContinuationLine
    \/ HeaderRaises

\* the last call of load_chat failed
Failed == pc = "idle" /\ outcome \in {"ValueError", "FileNotFoundError"}

\* C25: a call of load_chat that fails, for want of a path, for a missing
\* file or on a header timestamp no format parses, never assigns the
\* parser's messages or table: no step of a call before the storing of its
\* result changes them, and the summary asked for after a failed call is
\* the summary of the table the parser held before it.
C25_FailedLoadKeeps ==
    /\ [][BeforeStoring => /\ self_messages' = self_messages
                           /\ self_df' = self_df]_vars
    /\ [][(GetChatInfo /\ Failed /\ self_messages # <<>>)
             => /\ result'.raised = ""
                /\ result'.value[1] # <<>>
                /\ Len(self_df[1]) = Len(self_messages)
                /\ SummaryOf(result'.value[1][1], self_df[1])]_vars

\* a file was loaded, a second file failed on its second header after its
\* first message had been parsed, and the summary counts the first file only
C25_Witness ==
    /\ Failed
    /\ outcome = "ValueError"
    /\ InputLines = <<HdrAndroid, HdrBadStamp>>
    /\ idx = 2
    /\ current_message # <<>>
    /\ Len(self_messages) = 2
    /\ \A k \in 1..2 : self_messages[k].message # current_message[1].message
    /\ result.op = "get_chat_info"
    /\ result.value[1] # <<>>
    /\ result.value[1][1].total_messages = 2

\* the rows of the table are the messages of the list, each once
SameRows(df, msgs) ==
    /\ Len(df) = Len(msgs)
    /\ \E p \in Permutations(1..Len(msgs)) : \A i \in 1..Len(msgs) : df[i] = msgs[p[i]]

\* C26: whenever a call of load_chat has returned, however many calls went
\* before it, the parser's messages are exactly the messages of the file
\* that call read, one per header of that file, and the table has those
\* messages as its rows; nothing of an earlier load remains.
C26_ReloadReplaces ==
    (pc = "idle" /\ outcome = "returned") =>
        /\ Accounts(self_messages, InputLines, HeaderIdx(InputLines))
        /\ self_df # <<>>
        /\ SameRows(self_df[1], self_messages)
        /\ returned = self_df

\* a second load has returned with fewer messages than the first had stored
LoadedAgain ==
    /\ pc = "idle"
    /\ outcome = "returned"
    /\ InputLines = <<HdrIos>>
    /\ Len(self_messages) = 1

\* a used parser has read the one-message file after a file of other
\* messages: the reload took the place of what was held
C26_Witness ==
    /\ LoadedAgain
    /\ result.op = "get_chat_info"
    /\ result.value[1] # <<>>
    /\ result.value[1][1].total_messages > 1

(***************************************************************************)
(* The group analyzer's conversation starters and summary                  *)
(***************************************************************************)

\* get_conversation_starters, lines 269-299, on the sorted rows: line 299
\* sorts the frame built from the entries by a column that a frame built
\* from no entry does not have
GetConversationStarters ==
    /\ group_analyzer # <<>>
    /\ \E sorted \in sort_values(NotSystem(group_analyzer[1].rows)) :
          result' = IF Starters(sorted) = <<>>
                    THEN Raised("get_conversation_starters", "KeyError")
                    ELSE Returned("get_conversation_starters",
                                  StarterRows(group_analyzer[1].rows, Starters(sorted)))
    /\ UNCHANGED <<chat_analyzer, group_analyzer, self_df, returned>>
    /\ UNCHANGED loadVars
    /\ UNCHANGED lineVars

\* line 396: the author of the first row, None for an empty frame
TopOf(table) == IF DOMAIN table = {} THEN {<<>>} ELSE {<<a>> : a \in TopStarters(table)}

\* line 392: pairs[0] if pairs else None
FirstOf(pairs) == IF pairs = <<>> THEN <<>> ELSE <<pairs[1]>>

\* the dict of lines 401-409, pairs being the list of line 391, top the
\* starter of line 396 and rows the frame after line 399
group_summary(rows, pairs, top) ==
    [total_members            |-> Len(unique(Column(rows, "author"))),
     total_messages           |-> Len(NotSystem(rows)),
     messages_per_member      |-> Hundredths(Len(NotSystem(rows)),
                                             Len(unique(Column(rows, "author")))),
     most_active_pair         |-> FirstOf(pairs),
     top_conversation_starter |-> top,
     total_conversation_pairs |-> Len(pairs),
     avg_overlap_hours        |-> MeanOverlap(active_time_overlap(rows))]

\* get_group_summary, lines 381-409: the pairs of line 391, the starters of
\* line 395, whose exception leaves the method, then the overlaps of line
\* 399, which write the date_hour column
GetGroupSummary ==
    /\ group_analyzer # <<>>
    /\ \E forPairs \in sort_values(NotSystem(group_analyzer[1].rows)),
          sorted \in sort_values(NotSystem(group_analyzer[1].rows)) :
          IF Starters(sorted) = <<>>
          THEN /\ result' = Raised("get_group_summary", "KeyError")
               /\ UNCHANGED <<group_analyzer, self_df, returned>>
          ELSE /\ \E top \in TopOf(StarterRows(group_analyzer[1].rows, Starters(sorted))) :
                    result' = Returned("get_group_summary",
                        group_summary(WithDateHour(group_analyzer[1].rows),
                            conversation_pairs(
                                interaction_matrix(group_analyzer[1].rows, forPairs), 1),
                            top))
               /\ group_analyzer' = <<Floored(group_analyzer[1])>>
               /\ self_df' = Written(group_analyzer[1],
                                     WithDateHour(group_analyzer[1].rows), self_df)
               /\ returned' = Written(group_analyzer[1],
                                      WithDateHour(group_analyzer[1].rows), returned)
    /\ UNCHANGED chat_analyzer
    /\ UNCHANGED loadVars
    /\ UNCHANGED lineVars

NextGroup ==
    \/ LoadChatNoPath
    \/ LoadChatMissing
    \/ LoadChat
    \/ SkipBlank
    \/ HeaderLine
    \/ HeaderRaises
    \/ ContinuationLine
    \/ FinishLoad
    \/ NewGroupChatAnalyzer
    \/ GetConversationStarters
    \/ GetGroupSummary

SpecGroup == Init /\ [][NextGroup]_vars

(***************************************************************************)
(* Properties of the conversation starters                                 *)
(***************************************************************************)

\* a before b
Earlier(a, b) == DtLess(a.datetime, b.datetime)

\* no two messages that are not system messages and stand next to each
\* other in the order of their timestamps are more than an hour apart
Quiet(rows) ==
    \A i, j \in {n \in 1..Len(rows) : ~rows[n].is_system} :
        (/\ Earlier(rows[i], rows[j])
         /\ ~\E k \in 1..Len(rows) : /\ ~rows[k].is_system
                                     /\ Earlier(rows[i], rows[k])
                                     /\ Earlier(rows[k], rows[j]))
            => ~MoreThanAnHour(rows[i].datetime, rows[j].datetime)

\* the group analyzer holds a quiet table and one of the two methods was
\* called on it
CalledOnQuiet ==
    /\ group_analyzer # <<>>
    /\ Quiet(group_analyzer[1].rows)
    /\ result.op \in {"get_conversation_starters", "get_group_summary"}

\* C30: on a table with at least one message in which no two consecutive
\* messages that are not system messages are more than an hour apart,
\* get_conversation_starters returns an empty result and get_group_summary
\* returns a summary whose top_conversation_starter is None; neither raises.
C30_QuietStarters ==
    CalledOnQuiet =>
        /\ result.raised = ""
        /\ result.op = "get_conversation_starters" => DOMAIN result.value[1] = {}
        /\ result.op = "get_group_summary"
               => result.value[1].top_conversation_starter = <<>>

\* what the code does on a quiet table: both methods raise KeyError, on a
\* table of one message as on a table of two messages a minute apart
C30_RaisesOnQuiet ==
    /\ CalledOnQuiet
    /\ Len(NotSystem(group_analyzer[1].rows)) = 2
    /\ result = Raised("get_group_summary", "KeyError")

\* on a table with a gap of more than an hour the summary names a starter
C30_StarterNamed ==
    /\ group_analyzer # <<>>
    /\ ~Quiet(group_analyzer[1].rows)
    /\ result.op = "get_group_summary"
    /\ result.raised = ""
    /\ result.value[1].top_conversation_starter # <<>>
    /\ result.value[1].total_conversation_pairs >= 1

====
